---- MODULE Spec2Model ----
(***************************************************************************)
(* Verification model of the phantom-geometry engine of hazenlib:          *)
(*   slice_width.py  : Rod, sort_rods, get_rods, trapezoid, fit_trapezoid  *)
(*   relaxometry.py  : transform_coords, ImageStack                        *)
(* Every operation is a state machine of its own (SpecRods, SpecSort, ...) *)
(* over the variables below; the variables an operation does not own stay  *)
(* at their idle value.                                                    *)
(***************************************************************************)
EXTENDS Integers, Sequences, FiniteSets, TLC

VARIABLES
    arr,          \* get_rods: dcm.pixel_array, an image of one row
    rods_pc,      \* get_rods: "call", "returned", "exit"
    thres_ind,    \* get_rods: the threshold chosen for labelling
    rods,         \* get_rods: the value returned (<<>> when none)
    centroids,    \* sort_rods: the list handed to sort_rods
    ordered,      \* sort_rods: the list returned by the last call (<<>> before)
    reference,    \* sort_rods: the list returned by the first call
    n_swaps,      \* sort_rods: reorderings of the input made by the caller
    profiles,     \* fit_trapezoid: the dictionary made by baseline_correction
    slice_thickness,             \* fit_trapezoid: nominal thickness
    baseline_fit_coefficients,   \* fit_trapezoid: held baseline <<c0, c1, c2>>
    trapezoid_fit_coefficients,  \* fit_trapezoid: held trapezoid
    current_error,               \* fit_trapezoid
    new_error,                   \* fit_trapezoid: error of the last candidate
    cont,                        \* fit_trapezoid: 1 when the pass accepted
    j,                           \* fit_trapezoid: passes begun
    i,                           \* fit_trapezoid: perturbation to try next
    fit_pc,       \* fit_trapezoid: "call", "while", "for", "done", "raised"
    n_accept,     \* fit_trapezoid: perturbations accepted so far
    coords,       \* transform_coords: the array np.array(coords), with its dtype
    rt_matrix,    \* transform_coords: the 2 x 3 matrix
    flags,        \* transform_coords: <<input_yx, output_yx>> of the call
    out_coords,   \* transform_coords: the array returned
    back_flags,   \* transform_coords: the flags of the call with the inverse
    back_coords,  \* transform_coords: the array that call returned
    tc_pc,        \* transform_coords: "start", "applied", "inverted"
    images,           \* ImageStack: self.images
    dicom_order_key,  \* ImageStack: self.dicom_order_key
    template_dcm,     \* ImageStack: self.template_dcm
    warp_matrix,      \* ImageStack: self.warp_matrix, "unset" until assigned
    target_px,        \* ImageStack: the image the last fit was made to
    fit_outcome,      \* ImageStack: how the last template_fit ended
    series_args,      \* ImageStack: arguments of the last generate_time_series
    series_outcome,   \* ImageStack: how the last generate_time_series ended
    ROI_time_series,  \* ImageStack: self.ROI_time_series, as the points sampled
    image_slices,     \* ImageStack: the slices in the order the caller gave them
    fit_args,         \* ImageStack: image_index of the last template_fit
    data,         \* ACRGhosting.run: self.data, each slice by its z-position
    run_pc,       \* ACRGhosting.run: "call", "loop", "returned", "IndexError"
    dcm,          \* ACRGhosting.run: index of the slice the loop is at
    calls,        \* ACRGhosting.run: slices given to get_signal_ghosting
    results,      \* ACRGhosting.run: slices that have an entry in results
    img,          \* get_signal_ghosting: the pixel array, as its regions
    res,          \* get_signal_ghosting: PixelSpacing (both directions)
    roi_shape,    \* get_signal_ghosting: shape of the ROI masks
    roi_vals,     \* get_signal_ghosting: the five ROI means
    psg,          \* get_signal_ghosting: the value returned
    ghost_pc,     \* get_signal_ghosting: "call", "returned", "IndexError"
    unif_img,     \* get_integral_uniformity: img, the pixel array
    unif_res,     \* get_integral_uniformity: res[0] of PixelSpacing
    acr_centre,   \* get_integral_uniformity: self.ACR_obj.centre
    base_mask,    \* get_integral_uniformity: the small mask, as its True indices
    lroi,         \* get_integral_uniformity: the large mask, as its True indices
    sig_max,      \* get_integral_uniformity
    sig_min,      \* get_integral_uniformity
    piu,          \* get_integral_uniformity: the value returned
    unif_pc,      \* get_integral_uniformity: "call", "returned", or the error
    check_val,           \* GUI: CheckBoxes[key][0].get(), 0 or 1, for each key
    widget_state,        \* GUI: the 'state' option of each widget of WidgetsToToggle
    ManualResCheck,      \* GUI: the IntVar of 'Use Manual Resolution Check'
    DCMfolder_path,      \* GUI: the StringVar shown next to 'Set DICOM Path'
    Resultsfolder_path,  \* GUI: the StringVar shown next to 'Set Results Output Path'
    shown_errors,        \* GUI: messagebox.showerror messages shown by the last RunAnalysis
    analysis_call,       \* GUI: arguments of the last MedACRAnalysis.RunAnalysis call (<<>> before)
    gui_exc,             \* GUI: TRUE when the last callback ended with an exception
    gui_pc        \* GUI: "idle" (in mainloop), "rois", "analysis" (inside RunAnalysis)

vars == <<arr, rods_pc, thres_ind, rods, centroids, ordered, reference, n_swaps,
          profiles, slice_thickness, baseline_fit_coefficients,
          trapezoid_fit_coefficients, current_error, new_error, cont, j, i,
          fit_pc, n_accept,
          coords, rt_matrix, flags, out_coords, back_flags, back_coords, tc_pc,
          images, dicom_order_key, template_dcm, warp_matrix, target_px,
          fit_outcome, series_args, series_outcome, ROI_time_series,
          image_slices, fit_args,
          data, run_pc, dcm, calls, results,
          img, res, roi_shape, roi_vals, psg, ghost_pc,
          unif_img, unif_res, acr_centre, base_mask, lroi, sig_max, sig_min,
          piu, unif_pc,
          check_val, widget_state, ManualResCheck, DCMfolder_path,
          Resultsfolder_path, shown_errors, analysis_call, gui_exc, gui_pc>>

rodsVars == <<arr, rods_pc, thres_ind, rods>>
sortVars == <<centroids, ordered, reference, n_swaps>>
fitVars == <<profiles, slice_thickness, baseline_fit_coefficients,
             trapezoid_fit_coefficients, current_error, new_error, cont, j, i,
             fit_pc, n_accept>>
tcVars == <<coords, rt_matrix, flags, out_coords, back_flags, back_coords, tc_pc>>
stackVars == <<images, dicom_order_key, template_dcm, warp_matrix, target_px,
               fit_outcome, series_args, series_outcome, ROI_time_series,
               image_slices, fit_args>>
runVars == <<data, run_pc, dcm, calls, results>>
ghostVars == <<img, res, roi_shape, roi_vals, psg, ghost_pc>>
unifVars == <<unif_img, unif_res, acr_centre, base_mask, lroi, sig_max, sig_min,
              piu, unif_pc>>
guiVars == <<check_val, widget_state, ManualResCheck, DCMfolder_path,
             Resultsfolder_path, shown_errors, analysis_call, gui_exc, gui_pc>>

----------------------------------------------------------------------------
(* Bounds of the model *)

MaxPix == 4        \* largest pixel value of the images of get_rods
MaxSwaps == 3      \* reorderings of the centroid list before sort_rods
ProfileLen == 60   \* samples of the profiles of fit_trapezoid
MaxPasses == 60    \* passes of fit_trapezoid the model follows
MaxCoord == 2      \* largest coordinate of the points of transform_coords
NumImages == 3     \* images of an ImageStack
ImageRows == 3     \* rows, and columns, of the pixel arrays of an ImageStack
MaxSlices == 8     \* slices of the stack given to ACRGhosting.run
ImgSize == 48      \* rows, or columns, of the image of get_signal_ghosting
UnifRows == 2      \* rows of the image of get_integral_uniformity
UnifCols == 3      \* columns of the image of get_integral_uniformity
MaxVal == 3        \* largest pixel value of the image of get_integral_uniformity

----------------------------------------------------------------------------
(* Helpers: rationals <<n, d>> with d > 0 (numpy float coordinates) *)

Rat(n) == <<n, 1>>
RatLe(a, b) == a[1] * b[2] <= b[1] * a[2]
RatLt(a, b) == a[1] * b[2] < b[1] * a[2]
RatEq(a, b) == a[1] * b[2] = b[1] * a[2]

Abs(n) == IF n < 0 THEN -n ELSE n
RECURSIVE GCD(_, _)
GCD(a, b) == IF b = 0 THEN a ELSE GCD(b, a % b)
\* the rational n / d in lowest terms with a positive denominator
Frac(n, d) ==
    LET g == GCD(Abs(n), Abs(d))
        sgn == IF d < 0 THEN -1 ELSE 1
    IN <<sgn * (n \div g), sgn * (d \div g)>>
\* sums and products, with the common factors taken out first
RatAdd(a, b) ==
    LET g == GCD(a[2], b[2])
    IN Frac(a[1] * (b[2] \div g) + b[1] * (a[2] \div g), a[2] * (b[2] \div g))
RatMul(a, b) ==
    LET g == GCD(Abs(a[1]), b[2])
        h == GCD(Abs(b[1]), a[2])
    IN IF a[1] = 0 \/ b[1] = 0 THEN <<0, 1>>
       ELSE Frac((a[1] \div g) * (b[1] \div h), (a[2] \div h) * (b[2] \div g))
RatNeg(a) == <<-a[1], a[2]>>
RatInv(a) == Frac(a[2], a[1])
\* rounding to the nearest integer, halves to the even one (cvRound)
RatRound(a) ==
    LET q == a[1] \div a[2]
        r == a[1] - q * a[2]
    IN IF 2 * r < a[2] THEN q
       ELSE IF 2 * r > a[2] THEN q + 1
       ELSE IF q % 2 = 0 THEN q ELSE q + 1

RECURSIVE SumSet(_, _)
SumSet(S, f) == IF S = {} THEN 0
                ELSE LET p == CHOOSE q \in S : TRUE
                     IN f[p] + SumSet(S \ {p}, f)

----------------------------------------------------------------------------
(* slice_width.py: Rod and sort_rods *)

Rod(x, y) == [x |-> x, y |-> y]

\* sorted(s, key=lambda rod: rod[k]): Python's sort is stable, so an element
\* goes behind every element already placed whose key is not larger.
RECURSIVE InsertByKey(_, _, _)
InsertByKey(s, r, k) ==
    IF s = <<>> THEN <<r>>
    ELSE IF RatLe(s[Len(s)][k], r[k]) THEN Append(s, r)
         ELSE Append(InsertByKey(SubSeq(s, 1, Len(s) - 1), r, k), s[Len(s)])

RECURSIVE sorted(_, _)
sorted(s, k) ==
    IF s = <<>> THEN <<>>
    ELSE InsertByKey(sorted(SubSeq(s, 1, Len(s) - 1), k), s[Len(s)], k)

\* Python slices s[a:b] with 0-based a, b already clipped to 0..len(s)
Slice(s, a, b) == SubSeq(s, a + 1, b)
Clip(n, len) == IF n < 0 THEN 0 ELSE IF n > len THEN len ELSE n

sort_rods_rows_swapped(rs) ==
    LET by_y == sorted(rs, "y")
        n == Len(rs)
        lower_row == sorted(Slice(by_y, 0, Clip(3, n)), "x")
        middle_row == sorted(Slice(by_y, Clip(3, n), Clip(6, n)), "x")
        upper_row == sorted(Slice(by_y, Clip(n - 3, n), n), "x")
    IN lower_row \o middle_row \o upper_row

sort_rods(rs) ==
    LET by_y == sorted(rs, "y")
        n == Len(rs)
        lower_row == sorted(Slice(by_y, Clip(n - 3, n), n), "x")
        middle_row == sorted(Slice(by_y, Clip(3, n), Clip(6, n)), "x")
        upper_row == sorted(Slice(by_y, 0, Clip(3, n)), "x")
    IN lower_row \o middle_row \o upper_row

----------------------------------------------------------------------------
(* sort_rods as a state machine: the caller holds nine centroids, may      *)
(* reorder the list, and calls sort_rods on it.                            *)

\* a 3 x 3 grid of centroids; three of them are displaced by the input
GridX == <<10, 20, 30>>
GridY == <<10, 20, 30>>
Offsets == {-10, -5, 0, 5}

Grid(dy4, dy9, dx2, dy2) ==
    [ia \in 1..9 |->
        LET row == ((ia - 1) \div 3) + 1
            col == ((ia - 1) % 3) + 1
        IN Rod(Rat(GridX[col] + (IF ia = 2 THEN dx2 ELSE IF ia = 4 THEN 2
                                 ELSE IF ia = 9 THEN -2 ELSE 0)),
               Rat(GridY[row] + (IF ia = 4 THEN dy4 ELSE IF ia = 9 THEN dy9
                                 ELSE IF ia = 2 THEN dy2 ELSE 0)))]

Distinct(s) == \A ia, ib \in 1..Len(s) : ia # ib => s[ia] # s[ib]

SwapAt(s, ia) == [p \in 1..Len(s) |-> IF p = ia THEN s[ia + 1]
                                      ELSE IF p = ia + 1 THEN s[ia] ELSE s[p]]

InitSort ==
    /\ \E dy4 \in Offsets, dy9 \in Offsets, dx2 \in Offsets, dy2 \in {0, 2} :
          /\ centroids = Grid(dy4, dy9, dx2, dy2)
          /\ Distinct(centroids)
    /\ ordered = <<>>
    /\ reference = <<>>
    /\ n_swaps = 0

\* the caller hands the same centroids over in another order
Reorder(ia) ==
    /\ n_swaps < MaxSwaps
    /\ centroids' = SwapAt(centroids, ia)
    /\ n_swaps' = n_swaps + 1
    /\ ordered' = <<>>
    /\ UNCHANGED reference
    /\ UNCHANGED <<rodsVars, fitVars, tcVars, stackVars, runVars, ghostVars, unifVars, guiVars>>

CallSortRods ==
    /\ ordered = <<>>
    /\ ordered' = sort_rods(centroids)
    /\ reference' = IF reference = <<>> THEN sort_rods(centroids) ELSE reference
    /\ UNCHANGED <<centroids, n_swaps>>
    /\ UNCHANGED <<rodsVars, fitVars, tcVars, stackVars, runVars, ghostVars, unifVars, guiVars>>

IdleRods == /\ arr = <<>> /\ rods_pc = "idle" /\ thres_ind = 0 /\ rods = <<>>
IdleSort == /\ centroids = <<>> /\ ordered = <<>> /\ reference = <<>> /\ n_swaps = 0
IdleFit ==
    /\ profiles = <<>> /\ slice_thickness = 0
    /\ baseline_fit_coefficients = <<>> /\ trapezoid_fit_coefficients = <<>>
    /\ current_error = 0 /\ new_error = 0 /\ cont = 0 /\ j = 0 /\ i = 0
    /\ fit_pc = "idle" /\ n_accept = 0
IdleCoords ==
    /\ coords = <<>> /\ rt_matrix = <<>> /\ flags = <<>> /\ out_coords = <<>>
    /\ back_flags = <<>> /\ back_coords = <<>> /\ tc_pc = "idle"
IdleStack ==
    /\ images = <<>> /\ dicom_order_key = "None" /\ template_dcm = "None"
    /\ warp_matrix = "unset" /\ target_px = 0 /\ fit_outcome = "idle"
    /\ series_args = <<>> /\ series_outcome = "idle" /\ ROI_time_series = <<>>
    /\ image_slices = <<>> /\ fit_args = 0
IdleRun ==
    /\ data = <<>> /\ run_pc = "idle" /\ dcm = 0 /\ calls = {} /\ results = {}
IdleGhost ==
    /\ img = <<>> /\ res = 0 /\ roi_shape = <<>> /\ roi_vals = <<>>
    /\ psg = <<>> /\ ghost_pc = "idle"
IdleUnif ==
    /\ unif_img = <<>> /\ unif_res = 0 /\ acr_centre = <<>> /\ base_mask = {}
    /\ lroi = {} /\ sig_max = <<>> /\ sig_min = <<>> /\ piu = <<>>
    /\ unif_pc = "idle"
IdleGui ==
    /\ check_val = <<>> /\ widget_state = <<>> /\ ManualResCheck = 0
    /\ DCMfolder_path = "" /\ Resultsfolder_path = "" /\ shown_errors = {}
    /\ analysis_call = <<>> /\ gui_exc = FALSE /\ gui_pc = "off"

NextSort ==
    \/ \E ia \in 1..8 : Reorder(ia)
    \/ CallSortRods

StartSort == InitSort /\ IdleRods /\ IdleFit /\ IdleCoords /\ IdleStack /\ IdleRun /\ IdleGhost /\ IdleUnif /\ IdleGui

SpecSort == StartSort /\ [][NextSort]_vars

----------------------------------------------------------------------------
(* slice_width.py: get_rods.  The image is a pixel array of one row, so    *)
(* the connected components ndimage.label finds are the runs of the mask,  *)
(* numbered from 1 in raster order.                                        *)

Width == 21
MaxOf(a) == CHOOSE m \in {a[p] : p \in 1..Len(a)} : \A q \in 1..Len(a) : a[q] <= m

\* img_tmp <= x
Binarize(a, x) == [p \in 1..Len(a) |-> a[p] <= x]

\* ndimage.label(mask): labeled_array and num_features
RunStarts(m) == {p \in 1..Len(m) : m[p] /\ (p = 1 \/ ~m[p - 1])}
num_features_of(m) == Cardinality(RunStarts(m))
labeled_array_of(m) ==
    [p \in 1..Len(m) |-> IF m[p] THEN Cardinality({q \in RunStarts(m) : q <= p}) ELSE 0]

\* no_region[x] for x in range(0, img_max)
no_region(a) == [x \in 0..(MaxOf(a) - 1) |-> num_features_of(Binarize(a, x))]

\* index = [ia for ia, val in enumerate(no_region) if val == 10]
index(a) == {x \in DOMAIN no_region(a) : no_region(a)[x] = 10}

\* the n-th smallest element of a set of integers, n from 1
Nth(S, n) == CHOOSE v \in S : Cardinality({u \in S : u <= v}) = n

\* the result of casting NaN to an integer is undefined: the most negative
\* integer on x86, 0 on other builds
NanAsInt == {-2147483647, 0}

\* np.median(index).astype(np.int): the values thres_ind can take
median_as_int(S) ==
    LET n == Cardinality(S)
    IN IF n = 0 THEN NanAsInt
       ELSE IF n % 2 = 1 THEN {Nth(S, (n + 1) \div 2)}
       ELSE {(Nth(S, n \div 2) + Nth(S, (n \div 2) + 1)) \div 2}

\* if num_features != 10: sys.exit(...)
check_never_fails(n) == FALSE
not_ten_features(n) == n # 10

\* ndimage.measurements.center_of_mass(arr, labeled_array, l): (row, column),
\* weighted by intensity; <<0, 0>> stands for 0/0
center_of_mass(a, lab, l) ==
    LET S == {p \in 1..Len(a) : lab[p] = l}
        weight == SumSet(S, a)
        moment == SumSet(S, [p \in 1..Len(a) |-> (p - 1) * a[p]])
    IN <<(<<0, weight>>), (<<moment, weight>>)>>

InitRods ==
    /\ \E corner, sep8, rod9, sep9, speck \in 1..MaxPix :
          arr = [p \in 1..Width |->
                    IF p = 1 THEN corner
                    ELSE IF p = 18 THEN sep8
                    ELSE IF p = 19 THEN rod9
                    ELSE IF p = 20 THEN sep9
                    ELSE IF p = 21 THEN speck
                    ELSE IF p % 2 = 1 THEN 1 ELSE MaxPix]
    /\ rods_pc = "call"
    /\ thres_ind = 0
    /\ rods = <<>>

\* get_rods leaving through sys.exit("Did not find the 9 rods")
GetRodsExit ==
    /\ rods_pc = "call"
    /\ \E t \in median_as_int(index(arr)) :
          /\ not_ten_features(num_features_of(Binarize(arr, t)))
          /\ thres_ind' = t
    /\ rods_pc' = "exit"
    /\ UNCHANGED <<arr, rods>>
    /\ UNCHANGED <<sortVars, fitVars, tcVars, stackVars, runVars, ghostVars, unifVars, guiVars>>

\* get_rods returning the sorted centroids of the labels 2..10
GetRodsReturn ==
    /\ rods_pc = "call"
    /\ \E t \in median_as_int(index(arr)) :
          /\ ~not_ten_features(num_features_of(Binarize(arr, t)))
          /\ thres_ind' = t
          /\ LET lab == labeled_array_of(Binarize(arr, t))
                 com == [l \in 1..9 |-> center_of_mass(arr, lab, l + 1)]
             IN rods' = sort_rods([l \in 1..9 |-> Rod(com[l][2], com[l][1])])
    /\ rods_pc' = "returned"
    /\ UNCHANGED arr
    /\ UNCHANGED <<sortVars, fitVars, tcVars, stackVars, runVars, ghostVars, unifVars, guiVars>>

NextRods ==
    \/ GetRodsExit
    \/ GetRodsReturn

StartRods == InitRods /\ IdleSort /\ IdleFit /\ IdleCoords /\ IdleStack /\ IdleRun /\ IdleGhost /\ IdleUnif /\ IdleGui

SpecRods == StartRods /\ [][NextRods]_vars

----------------------------------------------------------------------------
(* slice_width.py: trapezoid, get_initial_trapezoid_fit_and_coefficients    *)
(* and fit_trapezoid.  Signal values, the baseline coefficients and the     *)
(* plateau amplitude are fixed-point numbers in units of 0.0001, the        *)
(* smallest step of the search; x_interp is 0, 1, ..., len(profile) - 1.    *)

RoundDiv(a, b) == (2 * a + b) \div (2 * b)

RECURSIVE SumFn(_, _)
SumFn(f, n) == IF n = 0 THEN 0 ELSE f[n] + SumFn(f, n - 1)

\* np.poly1d(c)(x)
polyval(c, x) == c[1] * x * x + c[2] * x + c[3]

\* np.linspace(start, stop, num)[t]
linspace(start, stop, num, t) ==
    IF num = 1 THEN start ELSE start + RoundDiv(t * (stop - start), num - 1)

\* a segment of trapezoid() is empty when its length is < 1
seg_len(n) == IF n < 1 THEN 0 ELSE n

\* trap = <<n_ramp, n_plateau, n_left_baseline, n_right_baseline, plateau_amplitude>>
trapezoid_len(trap) ==
    seg_len(trap[3]) + 2 * seg_len(trap[1]) + seg_len(trap[2]) + seg_len(trap[4])

\* trapezoid(*trap)[k - 1]
trapezoid_at(trap, k) ==
    LET nl == seg_len(trap[3])
        nr == seg_len(trap[1])
        np == seg_len(trap[2])
    IN IF k <= nl THEN 0
       ELSE IF k <= nl + nr THEN linspace(0, trap[5], nr, k - nl - 1)
       ELSE IF k <= nl + nr + np THEN trap[5]
       ELSE IF k <= nl + 2 * nr + np THEN linspace(trap[5], 0, nr, k - nl - nr - np - 1)
       ELSE 0

\* numpy broadcasting of two 1-d arrays; otherwise ValueError
shapes_agree(n, m) == n = m \/ n = 1 \/ m = 1

\* sum((target - (np.poly1d(base)(x_interp) + trapezoid(*trap))) ** 2)
sum_squared_difference(target, base, trap) ==
    LET n == Len(target)
        m == trapezoid_len(trap)
        len == IF n >= m THEN n ELSE m
        d == [k \in 1..len |->
                 target[IF n = 1 THEN 1 ELSE k]
                 - (polyval(base, (IF n = 1 THEN 1 ELSE k) - 1)
                    + trapezoid_at(trap, IF m = 1 THEN 1 ELSE k))]
    IN SumFn([k \in 1..len |-> d[k] * d[k]], len)

\* get_error(base, trap), when it does not raise
get_error(base, trap) ==
    sum_squared_difference(profiles.profile_interpolated, base, trap)
get_error_raises(trap) ==
    ~shapes_agree(Len(profiles.profile_interpolated), trapezoid_len(trap))

(* get_initial_trapezoid_fit_and_coefficients *)

n_ramp_of(thickness) == IF thickness = 3 THEN 7 ELSE 47
n_plateau_of(thickness) == IF thickness = 3 THEN 32 ELSE 55

\* round(): half to even, of the rational a / 2
RoundHalfEven(a) ==
    LET q == a \div 2
    IN IF a % 2 = 0 THEN q ELSE IF q % 2 = 0 THEN q ELSE q + 1

\* round(np.median(np.argwhere(profile < np.mean(profile)))).astype(int)
trapezoid_centre(profile) ==
    LET n == Len(profile)
        total == SumFn(profile, n)
        below == {k - 1 : k \in {q \in 1..n : n * profile[q] < total}}
        c == Cardinality(below)
    IN IF c = 0 THEN NanAsInt
       ELSE IF c % 2 = 1 THEN {Nth(below, (c + 1) \div 2)}
       ELSE {RoundHalfEven(Nth(below, c \div 2) + Nth(below, (c \div 2) + 1))}

\* the n-th smallest value of a sequence, n from 1
OrderStat(a, n) ==
    CHOOSE v \in {a[k] : k \in 1..Len(a)} :
        /\ Cardinality({k \in 1..Len(a) : a[k] < v}) < n
        /\ n <= Cardinality({k \in 1..Len(a) : a[k] <= v})

\* np.percentile(a, q), linear interpolation
percentile(a, q) ==
    LET pos == q * (Len(a) - 1)
        lo == pos \div 100
        lov == OrderStat(a, lo + 1)
        hiv == IF lo + 2 <= Len(a) THEN OrderStat(a, lo + 2) ELSE lov
    IN lov + RoundDiv((pos % 100) * (hiv - lov), 100)

initial_coefficients(profile, thickness, centre) ==
    LET n_ramp == n_ramp_of(thickness)
        n_plateau == n_plateau_of(thickness)
        n_left_baseline == centre - RoundHalfEven(n_plateau) - n_ramp - 1
        n_right_baseline == Len(profile) - n_left_baseline - 2 * n_ramp - n_plateau
        plateau_amplitude == percentile(profile, 5) - percentile(profile, 95)
    IN <<n_ramp, n_plateau, n_left_baseline, n_right_baseline, plateau_amplitude>>

(* fit_trapezoid *)

perturbed_centre_only(n, base, trap) ==
    IF n = 10 THEN <<base, [trap EXCEPT ![3] = @ - 1]>>
    ELSE IF n = 11 THEN <<base, [trap EXCEPT ![3] = @ + 1]>>
    ELSE <<base, trap>>

\* the candidate of perturbation i: <<baseline, trapezoid>>
perturbed(n, base, trap) ==
    IF n = 0 THEN <<[base EXCEPT ![1] = @ - 1], trap>>
    ELSE IF n = 1 THEN <<[base EXCEPT ![1] = @ + 1], trap>>
    ELSE IF n = 2 THEN <<[base EXCEPT ![2] = @ - 10], trap>>
    ELSE IF n = 3 THEN <<[base EXCEPT ![2] = @ + 10], trap>>
    ELSE IF n = 4 THEN <<[base EXCEPT ![3] = @ - 1000], trap>>
    ELSE IF n = 5 THEN <<[base EXCEPT ![3] = @ + 1000], trap>>
    ELSE IF n = 6 THEN <<base, [trap EXCEPT ![1] = @ - 1, ![3] = @ + 1, ![4] = @ + 1]>>
    ELSE IF n = 7 THEN <<base, [trap EXCEPT ![1] = @ + 1, ![3] = @ - 1, ![4] = @ - 1]>>
    ELSE IF n = 8 THEN <<base, [trap EXCEPT ![2] = @ - 2, ![3] = @ + 1, ![4] = @ + 1]>>
    ELSE IF n = 9 THEN <<base, [trap EXCEPT ![2] = @ + 2, ![3] = @ - 1, ![4] = @ - 1]>>
    ELSE IF n = 10 THEN <<base, [trap EXCEPT ![3] = @ - 1, ![4] = @ + 1]>>
    ELSE IF n = 11 THEN <<base, [trap EXCEPT ![3] = @ + 1, ![4] = @ - 1]>>
    ELSE IF n = 12 THEN <<base, [trap EXCEPT ![5] = @ - 1000]>>
    ELSE <<base, [trap EXCEPT ![5] = @ + 1000]>>

\* if new_error < current_error
not_worse(new, cur) == new <= cur
improves(new, cur) == new < cur

\* if i > 6: the trapezoid is replaced, else the baseline
replaces_trapezoid(k) == k > 6

SkipPerturbation ==
    IF i >= 12 THEN i' = 13 /\ fit_pc' = "while"
    ELSE i' = i + 2 /\ fit_pc' = "for"

\* the end of the for loop over range(14)
NextPerturbation ==
    IF i = 13 THEN i' = 13 /\ fit_pc' = "while"
    ELSE i' = i + 1 /\ fit_pc' = "for"

\* lines 379-401: the initial coefficients and the initial error
FitBegin ==
    /\ fit_pc = "call"
    /\ \E centre \in trapezoid_centre(profiles.profile_corrected_interpolated) :
         LET trap == initial_coefficients(profiles.profile_corrected_interpolated,
                                          slice_thickness, centre)
         IN /\ trapezoid_fit_coefficients' = trap
            /\ IF shapes_agree(Len(profiles.profile_corrected_interpolated),
                               trapezoid_len(trap))
               THEN /\ current_error' =
                         sum_squared_difference(profiles.profile_corrected_interpolated,
                                                profiles.baseline_fit, trap)
                    /\ fit_pc' = "while"
               ELSE /\ current_error' = current_error
                    /\ fit_pc' = "raised"
    /\ baseline_fit_coefficients' = profiles.baseline_fit
    /\ cont' = 1
    /\ j' = 0
    /\ UNCHANGED <<profiles, slice_thickness, new_error, i, n_accept>>
    /\ UNCHANGED <<rodsVars, sortVars, tcVars, stackVars, runVars, ghostVars, unifVars, guiVars>>

\* while cont == 1: j += 1; cont = 0
StartPass ==
    /\ fit_pc = "while"
    /\ cont = 1
    /\ j < MaxPasses
    /\ j' = j + 1
    /\ cont' = 0
    /\ i' = 0
    /\ fit_pc' = "for"
    /\ UNCHANGED <<profiles, slice_thickness, baseline_fit_coefficients,
                   trapezoid_fit_coefficients, current_error, new_error, n_accept>>
    /\ UNCHANGED <<rodsVars, sortVars, tcVars, stackVars, runVars, ghostVars, unifVars, guiVars>>

\* perturbation i whose trapezoid has not the length of the profile:
\* get_error raises ValueError, which leaves fit_trapezoid
TryRaise ==
    /\ fit_pc = "for"
    /\ get_error_raises(perturbed(i, baseline_fit_coefficients,
                                  trapezoid_fit_coefficients)[2])
    /\ fit_pc' = "raised"
    /\ UNCHANGED <<profiles, slice_thickness, baseline_fit_coefficients,
                   trapezoid_fit_coefficients, current_error, new_error, cont,
                   j, i, n_accept>>
    /\ UNCHANGED <<rodsVars, sortVars, tcVars, stackVars, runVars, ghostVars, unifVars, guiVars>>

\* perturbation i accepted
TryAccept ==
    /\ fit_pc = "for"
    /\ LET cand == perturbed(i, baseline_fit_coefficients, trapezoid_fit_coefficients)
       IN /\ ~get_error_raises(cand[2])
          /\ improves(get_error(cand[1], cand[2]), current_error)
          /\ new_error' = get_error(cand[1], cand[2])
          /\ cont' = 1
          /\ IF replaces_trapezoid(i)
             THEN /\ trapezoid_fit_coefficients' = cand[2]
                  /\ UNCHANGED baseline_fit_coefficients
             ELSE /\ baseline_fit_coefficients' = cand[1]
                  /\ UNCHANGED trapezoid_fit_coefficients
          /\ current_error' = get_error(cand[1], cand[2])
    /\ n_accept' = n_accept + 1
    /\ NextPerturbation
    /\ UNCHANGED <<profiles, slice_thickness, j>>
    /\ UNCHANGED <<rodsVars, sortVars, tcVars, stackVars, runVars, ghostVars, unifVars, guiVars>>

\* perturbation i not accepted
TryReject ==
    /\ fit_pc = "for"
    /\ LET cand == perturbed(i, baseline_fit_coefficients, trapezoid_fit_coefficients)
       IN /\ ~get_error_raises(cand[2])
          /\ ~improves(get_error(cand[1], cand[2]), current_error)
          /\ new_error' = get_error(cand[1], cand[2])
    /\ NextPerturbation
    /\ UNCHANGED <<profiles, slice_thickness, baseline_fit_coefficients,
                   trapezoid_fit_coefficients, current_error, cont, j, n_accept>>
    /\ UNCHANGED <<rodsVars, sortVars, tcVars, stackVars, runVars, ghostVars, unifVars, guiVars>>

\* cont != 1: return trapezoid_fit_coefficients, baseline_fit_coefficients
FitReturn ==
    /\ fit_pc = "while"
    /\ cont # 1
    /\ fit_pc' = "done"
    /\ UNCHANGED <<profiles, slice_thickness, baseline_fit_coefficients,
                   trapezoid_fit_coefficients, current_error, new_error, cont,
                   j, i, n_accept>>
    /\ UNCHANGED <<rodsVars, sortVars, tcVars, stackVars, runVars, ghostVars, unifVars, guiVars>>

\* the dictionary baseline_correction makes of a profile: the baseline
\* polynomial, the detrended profile and the profile with the baseline
BaselineCorrected(corrected, base) ==
    [baseline_fit |-> base,
     profile_corrected_interpolated |-> corrected,
     profile_interpolated |->
         [k \in 1..Len(corrected) |-> corrected[k] + polyval(base, k - 1)]]

\* a detrended profile with a dip of the given shape
Dip(n_left, n_ramp, depth) ==
    LET trap == <<n_ramp, 46 - 2 * n_ramp, n_left, ProfileLen - 46 - n_left, -depth>>
    IN [k \in 1..ProfileLen |-> trapezoid_at(trap, k)]

InitFit ==
    /\ \E n_left \in {0, 2, 5, 7, ProfileLen - 46}, n_ramp \in {3, 7, 11},
          depth \in {2000, 2400},
          c0 \in {0, 1}, c2 \in {0, 300, 1000} :
          profiles = BaselineCorrected(Dip(n_left, n_ramp, depth), <<c0, 0, c2>>)
    /\ slice_thickness \in {3, 5}
    /\ baseline_fit_coefficients = <<>>
    /\ trapezoid_fit_coefficients = <<>>
    /\ current_error = 0 /\ new_error = 0 /\ cont = 0 /\ j = 0 /\ i = 0
    /\ fit_pc = "call"
    /\ n_accept = 0

NextFit ==
    \/ FitBegin
    \/ StartPass
    \/ TryRaise
    \/ TryAccept
    \/ TryReject
    \/ FitReturn

StartFit == InitFit /\ IdleRods /\ IdleSort /\ IdleCoords /\ IdleStack /\ IdleRun /\ IdleGhost /\ IdleUnif /\ IdleGui

SpecFit == StartFit /\ [][NextFit]_vars

----------------------------------------------------------------------------
(* relaxometry.py: transform_coords.  An array is [dtype, pts]: np.array of  *)
(* Python integers is an integer array, and cv.transform returns an array   *)
(* of the depth of its input, rounding to the nearest integer when that     *)
(* depth is an integer one.  Floating-point values are exact rationals.     *)

\* np.flip(a, axis=1)
flip(a) == [dtype |-> a.dtype,
            pts |-> [n \in 1..Len(a.pts) |-> <<a.pts[n][2], a.pts[n][1]>>]]

\* saturate_cast to the depth of the source array
cast(dtype, v) == IF dtype = "int" THEN Rat(RatRound(v)) ELSE v

\* cv.transform(np.array([a]), m)[0]
cv_transform(a, m) ==
    [dtype |-> a.dtype,
     pts |-> [n \in 1..Len(a.pts) |->
        LET x == a.pts[n][1]
            y == a.pts[n][2]
        IN <<cast(a.dtype, RatAdd(RatAdd(RatMul(m[1][1], x), RatMul(m[1][2], y)), m[1][3])),
             cast(a.dtype, RatAdd(RatAdd(RatMul(m[2][1], x), RatMul(m[2][2], y)), m[2][3]))>>]]

transform_coords_input_as_given(a, m, input_yx, output_yx) ==
    LET out == cv_transform(a, m)
    IN IF output_yx THEN flip(out) ELSE out

transform_coords_flags_exchanged(a, m, input_yx, output_yx) ==
    LET in_coords == IF output_yx THEN flip(a) ELSE a
        out == cv_transform(in_coords, m)
    IN IF input_yx THEN flip(out) ELSE out

transform_coords(a, m, input_yx, output_yx) ==
    LET in_coords == IF input_yx THEN flip(a) ELSE a
        out == cv_transform(in_coords, m)
    IN IF output_yx THEN flip(out) ELSE out

\* cv.invertAffineTransform(m): the zero matrix when m is singular
determinant(m) ==
    RatAdd(RatMul(m[1][1], m[2][2]), RatNeg(RatMul(m[1][2], m[2][1])))
invertAffineTransform(m) ==
    LET d == IF determinant(m)[1] = 0 THEN Rat(0) ELSE RatInv(determinant(m))
        a11 == RatMul(m[2][2], d)
        a22 == RatMul(m[1][1], d)
        a12 == RatNeg(RatMul(m[1][2], d))
        a21 == RatNeg(RatMul(m[2][1], d))
        b1 == RatAdd(RatNeg(RatMul(a11, m[1][3])), RatNeg(RatMul(a12, m[2][3])))
        b2 == RatAdd(RatNeg(RatMul(a21, m[1][3])), RatNeg(RatMul(a22, m[2][3])))
    IN <<(<<a11, a12, b1>>), (<<a21, a22, b2>>)>>

\* the inputs of the model
MatrixEntries == {Rat(-1), Rat(0), Rat(1), Frac(1, 2)}
WholeEntries == {Rat(-1), Rat(0), Rat(1)}
Translations == {<<Rat(0), Rat(0)>>, <<Frac(3, 2), Rat(-1)>>}
IntValues == {Rat(v) : v \in 0..MaxCoord}
FloatValues == {Frac(v, 2) : v \in 0..(MaxCoord + 1)}

InitCoords ==
    /\ \E dtype \in {"int", "float"} :
         \E x, y \in (IF dtype = "int" THEN IntValues ELSE FloatValues) :
            coords = [dtype |-> dtype, pts |-> <<(<<x, y>>)>>]
    /\ \E a, b \in MatrixEntries, c, d \in WholeEntries, t \in Translations :
          rt_matrix = <<(<<a, b, t[1]>>), (<<c, d, t[2]>>)>>
    /\ flags = <<>>
    /\ out_coords = <<>>
    /\ back_flags = <<>>
    /\ back_coords = <<>>
    /\ tc_pc = "start"

\* out = transform_coords(coords, rt_matrix, input_yx, output_yx)
Transform(input_yx, output_yx) ==
    /\ tc_pc = "start"
    /\ flags' = <<input_yx, output_yx>>
    /\ out_coords' = transform_coords(coords, rt_matrix, input_yx, output_yx)
    /\ tc_pc' = "applied"
    /\ UNCHANGED <<coords, rt_matrix, back_flags, back_coords>>
    /\ UNCHANGED <<rodsVars, sortVars, fitVars, stackVars, runVars, ghostVars, unifVars, guiVars>>

\* back = transform_coords(out, cv.invertAffineTransform(rt_matrix), ...)
TransformBack(input_yx, output_yx) ==
    /\ tc_pc = "applied"
    /\ back_flags' = <<input_yx, output_yx>>
    /\ back_coords' = transform_coords(out_coords, invertAffineTransform(rt_matrix),
                                       input_yx, output_yx)
    /\ tc_pc' = "inverted"
    /\ UNCHANGED <<coords, rt_matrix, flags, out_coords>>
    /\ UNCHANGED <<rodsVars, sortVars, fitVars, stackVars, runVars, ghostVars, unifVars, guiVars>>

NextCoords ==
    \/ \E input_yx, output_yx \in BOOLEAN : Transform(input_yx, output_yx)
    \/ \E input_yx, output_yx \in BOOLEAN : TransformBack(input_yx, output_yx)

StartCoords == InitCoords /\ IdleRods /\ IdleSort /\ IdleFit /\ IdleStack /\ IdleRun /\ IdleGhost /\ IdleUnif /\ IdleGui

SpecCoords == StartCoords /\ [][NextCoords]_vars

----------------------------------------------------------------------------
(* relaxometry.py: ImageStack.  An image is [id, time]: its pixels and the   *)
(* value of the attribute the stack is ordered by.  cv.findTransformECC is   *)
(* a library routine: it updates the matrix it is given in place and either  *)
(* returns it or raises cv.error when the iteration does not converge; which *)
(* matrix it reaches depends on the pixels and is any of WarpMatrices here.  *)

\* np.eye(2, 3, dtype=np.float32)
eye == <<(<<Rat(1), Rat(0), Rat(0)>>), (<<Rat(0), Rat(1), Rat(0)>>)>>

WarpMatrices ==
    {eye,
     <<(<<Rat(1), Rat(0), Rat(1)>>), (<<Rat(0), Rat(1), Rat(-1)>>)>>,
     <<(<<Rat(0), Rat(-1), Rat(2)>>), (<<Rat(1), Rat(0), Rat(0)>>)>>,
     <<(<<Rat(1), Rat(0), Frac(1, 2)>>), (<<Rat(0), Rat(1), Rat(2)>>)>>}

order_by_left_as_given(imgs) == imgs

\* self.images.sort(key=lambda x: x[att].value.real)
order_by(imgs) == sorted(imgs, "time")

\* self.images[0], whatever image_index is
target_of(imgs, image_index) == imgs[1].id

ImageOrders == {p \in [1..NumImages -> 1..NumImages] :
                     \A a, b \in 1..NumImages : a # b => p[a] # p[b]}

\* the stack after ImageStack(image_slices, template_dcm, dicom_order_key=...)
InitStack ==
    /\ \E p \in ImageOrders, key \in {"None", "InversionTime"} :
         LET given == [n \in 1..NumImages |->
                         [id |-> p[n], time |-> Rat((p[n] + 1) \div 2)]]
         IN /\ image_slices = given
            /\ dicom_order_key = key
            /\ images = IF key # "None" THEN order_by(given) ELSE given
    /\ fit_args = 0
    /\ template_dcm \in {"None", "template"}
    /\ warp_matrix = "unset"
    /\ target_px = 0
    /\ fit_outcome = "none"
    /\ series_args = <<>>
    /\ series_outcome = "none"
    /\ ROI_time_series = <<>>

\* template_fit where the stack was made without a template: template_px is
\* not an attribute, and the call raises before warp_matrix is assigned
TemplateFitNoTemplate(image_index) ==
    /\ template_dcm = "None"
    /\ fit_outcome' = "AttributeError"
    /\ fit_args' = image_index
    /\ target_px' = target_of(images, image_index)
    /\ UNCHANGED <<image_slices, images, dicom_order_key, template_dcm, warp_matrix,
                   series_args, series_outcome, ROI_time_series>>
    /\ UNCHANGED <<rodsVars, sortVars, fitVars, tcVars, runVars, ghostVars, unifVars, guiVars>>

\* template_fit where cv.findTransformECC converges to m
TemplateFitReturn(image_index, m) ==
    /\ template_dcm # "None"
    /\ fit_args' = image_index
    /\ target_px' = target_of(images, image_index)
    /\ warp_matrix' = m
    /\ fit_outcome' = "returned"
    /\ UNCHANGED <<image_slices, images, dicom_order_key, template_dcm,
                   series_args, series_outcome, ROI_time_series>>
    /\ UNCHANGED <<rodsVars, sortVars, fitVars, tcVars, runVars, ghostVars, unifVars, guiVars>>

\* template_fit where cv.findTransformECC raises: warp_matrix was assigned
\* np.eye(2, 3) before the call, and holds it, or what the iteration made of
\* it in place, afterwards
TemplateFitRaise(image_index, m) ==
    /\ template_dcm # "None"
    /\ fit_args' = image_index
    /\ target_px' = target_of(images, image_index)
    /\ warp_matrix' = m
    /\ fit_outcome' = "cv.error"
    /\ UNCHANGED <<image_slices, images, dicom_order_key, template_dcm,
                   series_args, series_outcome, ROI_time_series>>
    /\ UNCHANGED <<rodsVars, sortVars, fitVars, tcVars, runVars, ghostVars, unifVars, guiVars>>

\* the points generate_time_series samples
fitted_coords(coords_yx, fit_coords) ==
    IF fit_coords THEN transform_coords(coords_yx, warp_matrix, TRUE, TRUE)
    ELSE coords_yx

\* POI_mask[y, x] = 1 of ROITimeSeries: an integer index from -rows to rows - 1
is_index(v) == v[2] = 1 /\ v[1] >= -ImageRows /\ v[1] < ImageRows
in_mask(a, n) == a.dtype = "int" /\ is_index(a.pts[n][1]) /\ is_index(a.pts[n][2])
first_outside(a) ==
    IF \E n \in 1..Len(a.pts) : ~in_mask(a, n)
    THEN CHOOSE n \in 1..Len(a.pts) : ~in_mask(a, n) /\ \A k \in 1..(n - 1) : in_mask(a, k)
    ELSE Len(a.pts) + 1

\* generate_time_series(coords_yx, fit_coords=True) before warp_matrix exists
GenerateTimeSeriesUnfitted(coords_yx) ==
    /\ warp_matrix = "unset"
    /\ series_args' = <<coords_yx, TRUE>>
    /\ series_outcome' = "AttributeError"
    /\ UNCHANGED <<image_slices, fit_args, images, dicom_order_key, template_dcm, warp_matrix,
                   target_px, fit_outcome, ROI_time_series>>
    /\ UNCHANGED <<rodsVars, sortVars, fitVars, tcVars, runVars, ghostVars, unifVars, guiVars>>

\* generate_time_series that makes a ROITimeSeries of every point
GenerateTimeSeriesReturn(coords_yx, fit_coords) ==
    /\ fit_coords => warp_matrix # "unset"
    /\ first_outside(fitted_coords(coords_yx, fit_coords)) > Len(coords_yx.pts)
    /\ series_args' = <<coords_yx, fit_coords>>
    /\ ROI_time_series' = fitted_coords(coords_yx, fit_coords).pts
    /\ series_outcome' = "returned"
    /\ UNCHANGED <<image_slices, fit_args, images, dicom_order_key, template_dcm, warp_matrix,
                   target_px, fit_outcome>>
    /\ UNCHANGED <<rodsVars, sortVars, fitVars, tcVars, runVars, ghostVars, unifVars, guiVars>>

\* generate_time_series where a point is not an index of the mask: the
\* series of the points before it have been appended
GenerateTimeSeriesIndexError(coords_yx, fit_coords) ==
    /\ fit_coords => warp_matrix # "unset"
    /\ first_outside(fitted_coords(coords_yx, fit_coords)) <= Len(coords_yx.pts)
    /\ series_args' = <<coords_yx, fit_coords>>
    /\ ROI_time_series' =
          SubSeq(fitted_coords(coords_yx, fit_coords).pts, 1,
                 first_outside(fitted_coords(coords_yx, fit_coords)) - 1)
    /\ series_outcome' = "IndexError"
    /\ UNCHANGED <<image_slices, fit_args, images, dicom_order_key, template_dcm, warp_matrix,
                   target_px, fit_outcome>>
    /\ UNCHANGED <<rodsVars, sortVars, fitVars, tcVars, runVars, ghostVars, unifVars, guiVars>>

\* the template points given to generate_time_series: tuples of integers
TemplateCoords ==
    {[dtype |-> "int", pts |-> <<(<<Rat(y), Rat(x)>>), (<<Rat(x), Rat(ImageRows - 1)>>)>>] :
        y \in {0, 1}, x \in {1, ImageRows - 1}}

NextStack ==
    \/ \E image_index \in 0..(NumImages - 1) : TemplateFitNoTemplate(image_index)
    \/ \E image_index \in 0..(NumImages - 1), m \in WarpMatrices :
          TemplateFitReturn(image_index, m)
    \/ \E image_index \in 0..(NumImages - 1), m \in WarpMatrices :
          TemplateFitRaise(image_index, m)
    \/ \E c \in TemplateCoords : GenerateTimeSeriesUnfitted(c)
    \/ \E c \in TemplateCoords, fit_coords \in BOOLEAN :
          GenerateTimeSeriesReturn(c, fit_coords)
    \/ \E c \in TemplateCoords, fit_coords \in BOOLEAN :
          GenerateTimeSeriesIndexError(c, fit_coords)

StartStack == InitStack /\ IdleRods /\ IdleSort /\ IdleFit /\ IdleCoords /\ IdleRun /\ IdleGhost /\ IdleUnif /\ IdleGui

SpecStack == StartStack /\ [][NextStack]_vars

----------------------------------------------------------------------------
(* acr_ghosting.py: ACRGhosting.run.  A slice is its z-position            *)
(* (ImagePositionPatient[2]); what get_signal_ghosting does with a slice    *)
(* depends on its pixels, and it either returns a value or raises.          *)

\* z[idx_sort[6]]: the 7th smallest of the z-positions
seventh_z(z) ==
    CHOOSE v \in {z[n] : n \in 1..Len(z)} :
        /\ Cardinality({n \in 1..Len(z) : z[n] < v}) <= 6
        /\ Cardinality({n \in 1..Len(z) : z[n] <= v}) >= 7

\* if dcm.ImagePositionPatient[2] == z[idx_sort[6]]
picks(z, k) == z[k] = seventh_z(z)

\* a stack of n slices, slice t at the z-position of the one below it when
\* t > 1, handed over rotated by rot places and possibly reversed
Stack(n, t, rot, rev) ==
    LET up == [k \in 1..n |-> IF t > 1 /\ k >= t THEN k - 1 ELSE k]
        turned == [k \in 1..n |-> up[((k - 1 + rot) % n) + 1]]
    IN IF rev THEN [k \in 1..n |-> turned[n + 1 - k]] ELSE turned

InitRun ==
    /\ \E n \in 6..MaxSlices, t \in 1..MaxSlices, rot \in 0..(MaxSlices - 1),
          rev \in BOOLEAN :
          t <= n /\ rot < n /\ data = Stack(n, t, rot, rev)
    /\ run_pc = "call"
    /\ dcm = 0
    /\ calls = {}
    /\ results = {}

\* lines 33-38 with 7 slices or more
RunBegin ==
    /\ run_pc = "call"
    /\ Len(data) >= 7
    /\ run_pc' = "loop"
    /\ dcm' = 1
    /\ UNCHANGED <<data, calls, results>>
    /\ UNCHANGED <<rodsVars, sortVars, fitVars, tcVars, stackVars, ghostVars, unifVars, guiVars>>

\* fewer than 7 slices: idx_sort[6] is out of bounds at line 41
RunIndexError ==
    /\ run_pc = "call"
    /\ Len(data) < 7
    /\ run_pc' = "IndexError"
    /\ UNCHANGED <<data, dcm, calls, results>>
    /\ UNCHANGED <<rodsVars, sortVars, fitVars, tcVars, stackVars, ghostVars, unifVars, guiVars>>

\* a slice at another z-position
RunSkip ==
    /\ run_pc = "loop"
    /\ dcm <= Len(data)
    /\ ~picks(data, dcm)
    /\ dcm' = dcm + 1
    /\ UNCHANGED <<data, run_pc, calls, results>>
    /\ UNCHANGED <<rodsVars, sortVars, fitVars, tcVars, stackVars, ghostVars, unifVars, guiVars>>

\* a slice at the z-position: get_signal_ghosting returns
RunResult ==
    /\ run_pc = "loop"
    /\ dcm <= Len(data)
    /\ picks(data, dcm)
    /\ calls' = calls \cup {dcm}
    /\ results' = results \cup {dcm}
    /\ dcm' = dcm + 1
    /\ UNCHANGED <<data, run_pc>>
    /\ UNCHANGED <<rodsVars, sortVars, fitVars, tcVars, stackVars, ghostVars, unifVars, guiVars>>

\* a slice at the z-position: get_signal_ghosting raises, which is printed
RunExcept ==
    /\ run_pc = "loop"
    /\ dcm <= Len(data)
    /\ picks(data, dcm)
    /\ calls' = calls \cup {dcm}
    /\ dcm' = dcm + 1
    /\ UNCHANGED <<data, run_pc, results>>
    /\ UNCHANGED <<rodsVars, sortVars, fitVars, tcVars, stackVars, ghostVars, unifVars, guiVars>>

\* the end of the loop: return results
RunReturn ==
    /\ run_pc = "loop"
    /\ dcm > Len(data)
    /\ run_pc' = "returned"
    /\ UNCHANGED <<data, dcm, calls, results>>
    /\ UNCHANGED <<rodsVars, sortVars, fitVars, tcVars, stackVars, ghostVars, unifVars, guiVars>>

NextRun ==
    \/ RunBegin
    \/ RunIndexError
    \/ RunSkip
    \/ RunResult
    \/ RunExcept
    \/ RunReturn

StartRun == InitRun /\ IdleRods /\ IdleSort /\ IdleFit /\ IdleCoords /\ IdleStack /\ IdleGhost /\ IdleUnif /\ IdleGui

SpecRun == StartRun /\ [][NextRun]_vars

----------------------------------------------------------------------------
(* acr_ghosting.py: get_signal_ghosting.  The image is a bright rectangle   *)
(* (rows r0..r1, columns c0..c1, 0-based) of value signal on a background    *)
(* no brighter than a quarter of it, with one value on each side of the      *)
(* rectangle.  A float is a rational <<n, d>>; <<0, 0>> is nan and <<1, 0>>  *)
(* is inf.  A mask is the set of its True indices <<i, j>>.                  *)

nan == <<0, 0>>
inf == <<1, 0>>
CeilDiv(a, b) == -((-a) \div b)

\* img[i, j]
pixel_array(im, row, col) ==
    IF row >= im.r0 /\ row <= im.r1 /\ col >= im.c0 /\ col <= im.c1 THEN im.signal
    ELSE IF row < im.r0 THEN im.north
    ELSE IF row > im.r1 THEN im.south
    ELSE IF col < im.c0 THEN im.west
    ELSE im.east

\* skimage.morphology.area_opening(thresh_img, area_threshold=500)
area_threshold == 500

\* centroid_com: the threshold at a quarter of the maximum leaves the
\* rectangle, area_opening removes it when it has fewer than 500 pixels, and
\* its convex hull is itself; mask is <<r0, r1, c0, c1>>, or <<>> when empty
convex_hull(im) ==
    IF im.signal > 0 /\ (im.r1 - im.r0 + 1) * (im.c1 - im.c0 + 1) >= area_threshold
    THEN <<im.r0, im.r1, im.c0, im.c1>>
    ELSE <<>>

\* cxy = [int(sum_x / n), int(sum_y / n)] of the pixels of the hull
centroid(mask) == <<(mask[3] + mask[4]) \div 2, (mask[1] + mask[2]) \div 2>>

\* r_large = np.ceil(80 / res[0])
r_large(rs) == CeilDiv(80, rs)

\* sad / 2 = np.ceil(np.sqrt(1000 / (4 * np.pi)) / res[0]), the root being 8.9206
half_sad(rs) == CeilDiv(8921, 1000 * rs)

\* x, y = np.meshgrid(nx, ny): arrays of shape (dims[1], dims[0]) with
\* x[i, j] = j + 1 and y[i, j] = i + 1
meshgrid_shape(dims) == <<dims[2], dims[1]>>
xs(shape, lo, hi) == {v \in 1..shape[2] : v >= lo /\ v <= hi}
ys(shape, lo, hi) == {v \in 1..shape[1] : v >= lo /\ v <= hi}

\* lroi: (x - cxy[0])^2 + (y - cxy[1] - 5 / res[1])^2 <= r_large^2
lroi_mask(shape, cxy, rs) ==
    LET r == r_large(rs)
    IN {<<y - 1, x - 1>> : <<x, y>> \in
          {q \in xs(shape, cxy[1] - r, cxy[1] + r) \X ys(shape, cxy[2] - r, cxy[2] + r + 5) :
              rs * rs * (q[1] - cxy[1]) * (q[1] - cxy[1])
                + (rs * (q[2] - cxy[2]) - 5) * (rs * (q[2] - cxy[2]) - 5)
                  <= rs * rs * r * r}}

\* the scaling factor of an ellipse, as <<p, q>> for factor = p / q (q may be
\* negative): 1 when neither edge is overrun, else
\* (sad / 2) / (sad / 2 - |diff|) for the diff of larger magnitude, the first
\* on a tie; q = 0 is a division by zero, which gives inf
factor(overrun, diffs, h) ==
    IF ~overrun THEN <<1, 1>>
    ELSE LET d == IF Abs(diffs[2]) > Abs(diffs[1]) THEN diffs[2] ELSE diffs[1]
         IN <<h, h - Abs(d)>>

\* the centre and the factor of each ellipse; mask = <<r0, r1, c0, c1>>, so
\* w_point = mask[3], e_point = mask[4], n_point = mask[1], s_point = mask[2]
w_centre(mask, cxy) == <<cxy[2], mask[3] \div 2>>
w_factor(mask, cxy, h) ==
    LET left_fov_to_centre == w_centre(mask, cxy)[2] - h - 5
        centre_to_left_phantom == w_centre(mask, cxy)[2] + h + 5
    IN factor(left_fov_to_centre < 0 \/ centre_to_left_phantom > mask[3],
              <<left_fov_to_centre, centre_to_left_phantom - mask[3]>>, h)

e_centre(mask, cxy, dims) == <<cxy[2], mask[4] + CeilDiv(dims[2] - mask[4], 2)>>
e_factor(mask, cxy, dims, h) ==
    LET right_fov_to_centre == e_centre(mask, cxy, dims)[2] + h + 5
        centre_to_right_phantom == e_centre(mask, cxy, dims)[2] - h - 5
    IN factor(right_fov_to_centre > dims[2] - 1 \/ centre_to_right_phantom < mask[4],
              <<dims[2] - 1 - right_fov_to_centre, centre_to_right_phantom - mask[4]>>, h)

n_centre(mask, cxy) == <<RoundHalfEven(mask[1]), cxy[1]>>
n_factor(mask, cxy, h) ==
    LET top_fov_to_centre == n_centre(mask, cxy)[1] - h - 5
        centre_to_top_phantom == n_centre(mask, cxy)[1] + h + 5
    IN factor(top_fov_to_centre < 0 \/ centre_to_top_phantom > mask[1],
              <<top_fov_to_centre, centre_to_top_phantom - mask[1]>>, h)

\* the south centre is taken from dims[1], the number of columns
s_centre(mask, cxy, dims) == <<mask[2] + RoundHalfEven(dims[2] - mask[2]), cxy[1]>>
s_factor(mask, cxy, dims, h) ==
    LET bottom_fov_to_centre == s_centre(mask, cxy, dims)[1] + h + 5
        centre_to_bottom_phantom == s_centre(mask, cxy, dims)[1] - h - 5
    IN factor(bottom_fov_to_centre > dims[1] - 1 \/ centre_to_bottom_phantom < mask[2],
              <<dims[1] - 1 - bottom_fov_to_centre, centre_to_bottom_phantom - mask[2]>>, h)

\* ((long - c_long) / (4 f))^2 + ((short - c_short) f)^2 <= (10 / res)^2 with
\* f = p / q, over the long and the short axis of the ellipse; the candidates
\* lie in the box of its half-axes 40 |f| / res and 10 / (res |f|)
half_long(f, rs) == CeilDiv(40 * f[1], rs * Abs(f[2]))
half_short(f, rs) == CeilDiv(10 * Abs(f[2]), rs * f[1])
in_ellipse(dlong, dshort, f, rs) ==
    RatLe(RatAdd(Frac(dlong * dlong * f[2] * f[2], 16 * f[1] * f[1]),
                 Frac(dshort * dshort * f[1] * f[1], f[2] * f[2])),
          Frac(100, rs * rs))

\* w_ellipse and e_ellipse: the long axis along y
ellipse_we(shape, centre, f, rs) ==
    IF f[2] = 0 THEN {}
    ELSE {<<q[2] - 1, q[1] - 1>> : q \in
            {q \in xs(shape, centre[2] - half_short(f, rs), centre[2] + half_short(f, rs))
                   \X ys(shape, centre[1] - half_long(f, rs), centre[1] + half_long(f, rs)) :
                in_ellipse(q[2] - centre[1], q[1] - centre[2], f, rs)}}

\* n_ellipse and s_ellipse: the long axis along x
ellipse_ns(shape, centre, f, rs) ==
    IF f[2] = 0 THEN {}
    ELSE {<<q[2] - 1, q[1] - 1>> : q \in
            {q \in xs(shape, centre[2] - half_long(f, rs), centre[2] + half_long(f, rs))
                   \X ys(shape, centre[1] - half_short(f, rs), centre[1] + half_short(f, rs)) :
                in_ellipse(q[1] - centre[2], q[2] - centre[1], f, rs)}}

\* img[np.nonzero(roi)] raises IndexError when an index of the mask is not
\* one of the image
indexable(im, roi) == {q \in roi : q[1] >= im.rows \/ q[2] >= im.cols} = {}

\* np.mean(img[np.nonzero(roi)]): nan for an empty ROI
mean_of(im, roi) ==
    IF roi = {} THEN nan
    ELSE LET levels == {pixel_array(im, q[1], q[2]) : q \in roi}
             total == SumSet(levels, [v \in levels |->
                         v * Cardinality({q \in roi : pixel_array(im, q[1], q[2]) = v})])
         IN Frac(total, Cardinality(roi))

\* np.round(x, 3)
round3(x) ==
    LET d1 == (10 * (x[1] % x[2])) \div x[2]
        r1 == (10 * (x[1] % x[2])) % x[2]
        d2 == (10 * r1) \div x[2]
        r2 == (10 * r1) % x[2]
        d3 == (10 * r2) \div x[2]
        r3 == (10 * r2) % x[2]
        m == (((x[1] \div x[2]) * 10 + d1) * 10 + d2) * 10 + d3
    IN Frac(IF 2 * r3 < x[2] THEN m
            ELSE IF 2 * r3 > x[2] THEN m + 1
            ELSE IF m % 2 = 0 THEN m ELSE m + 1, 1000)

psg_signed(v) ==
    IF \E k \in 1..5 : v[k] = nan THEN nan
    ELSE LET top == RatAdd(RatAdd(v[4], v[5]), RatNeg(RatAdd(v[2], v[3])))
         IN IF v[1][1] = 0 THEN (IF top[1] = 0 THEN nan ELSE inf)
            ELSE round3(RatMul(Rat(100), RatMul(top, RatInv(RatMul(Rat(2), v[1])))))

\* psg = np.round(100 * np.absolute(((n + s) - (w + e)) / (2 * large)), 3)
\* for v = <<large, w, e, n, s>>
psg_of(v) ==
    IF \E k \in 1..5 : v[k] = nan THEN nan
    ELSE LET top == RatAdd(RatAdd(v[4], v[5]), RatNeg(RatAdd(v[2], v[3])))
             absolute == <<Abs(top[1]), top[2]>>
         IN IF v[1][1] = 0 THEN (IF top[1] = 0 THEN nan ELSE inf)
            ELSE round3(RatMul(Rat(100), RatMul(absolute, RatInv(RatMul(Rat(2), v[1])))))

\* the ROIs that lines 149-153 cannot index the image with
not_indexable(im, rois) == {k \in 1..5 : ~indexable(im, rois[k])}

\* the five ROI masks of an image, in the order large, w, e, n, s
roi_masks(im, rs) ==
    LET mask == convex_hull(im)
        cxy == centroid(mask)
        dims == <<im.rows, im.cols>>
        shape == meshgrid_shape(dims)
        h == half_sad(rs)
    IN <<lroi_mask(shape, cxy, rs),
         ellipse_we(shape, w_centre(mask, cxy), w_factor(mask, cxy, h), rs),
         ellipse_we(shape, e_centre(mask, cxy, dims), e_factor(mask, cxy, dims, h), rs),
         ellipse_ns(shape, n_centre(mask, cxy), n_factor(mask, cxy, h), rs),
         ellipse_ns(shape, s_centre(mask, cxy, dims), s_factor(mask, cxy, dims, h), rs)>>

\* the images of the model
Tops == {0, 2, 12}
Bottoms(top, n) == {top + 22, n - 1} \cup (IF top = 12 THEN {top + 5} ELSE {})
SideLevels == {<<0, 0, 0, 0>>, <<1, 1, 1, 1>>, <<1, 1, 2, 1>>}

InitGhost ==
    /\ \E rows, cols \in {ImgSize - 6, ImgSize} :
         \E r0, c0 \in Tops :
            \E r1 \in Bottoms(r0, rows), c1 \in Bottoms(c0, cols) :
               \E signal \in {0, 8}, lv \in SideLevels :
                  /\ signal = 0 => lv = <<0, 0, 0, 0>>
                  /\ img = [rows |-> rows, cols |-> cols,
                            r0 |-> r0, r1 |-> r1, c0 |-> c0, c1 |-> c1,
                            signal |-> signal, north |-> lv[1], south |-> lv[2],
                            west |-> lv[3], east |-> lv[4]]
    /\ res \in {10, 20}
    /\ roi_shape = <<>>
    /\ roi_vals = <<>>
    /\ psg = <<>>
    /\ ghost_pc = "call"

\* the hull is empty: np.argwhere(...)[0] at line 86 raises IndexError
GhostNoMask ==
    /\ ghost_pc = "call"
    /\ convex_hull(img) = <<>>
    /\ roi_shape' = meshgrid_shape(<<img.rows, img.cols>>)
    /\ ghost_pc' = "IndexError"
    /\ UNCHANGED <<img, res, roi_vals, psg>>
    /\ UNCHANGED <<rodsVars, sortVars, fitVars, tcVars, stackVars, runVars, unifVars, guiVars>>

\* an index of a ROI mask is not one of the image: lines 149-153 raise
GhostOutOfBounds ==
    /\ ghost_pc = "call"
    /\ convex_hull(img) # <<>>
    /\ not_indexable(img, roi_masks(img, res)) # {}
    /\ roi_shape' = meshgrid_shape(<<img.rows, img.cols>>)
    /\ ghost_pc' = "IndexError"
    /\ UNCHANGED <<img, res, roi_vals, psg>>
    /\ UNCHANGED <<rodsVars, sortVars, fitVars, tcVars, stackVars, runVars, unifVars, guiVars>>

\* lines 149-158 and 196
GhostReturn ==
    /\ ghost_pc = "call"
    /\ convex_hull(img) # <<>>
    /\ LET rois == roi_masks(img, res)
       IN /\ not_indexable(img, rois) = {}
          /\ roi_vals' = [k \in 1..5 |-> mean_of(img, rois[k])]
          /\ psg' = psg_of([k \in 1..5 |-> mean_of(img, rois[k])])
    /\ roi_shape' = meshgrid_shape(<<img.rows, img.cols>>)
    /\ ghost_pc' = "returned"
    /\ UNCHANGED <<img, res>>
    /\ UNCHANGED <<rodsVars, sortVars, fitVars, tcVars, stackVars, runVars, unifVars, guiVars>>

NextGhost ==
    \/ GhostNoMask
    \/ GhostOutOfBounds
    \/ GhostReturn

StartGhost == InitGhost /\ IdleRods /\ IdleSort /\ IdleFit /\ IdleCoords /\ IdleStack /\ IdleRun /\ IdleUnif /\ IdleGui

SpecGhost == StartGhost /\ [][NextGhost]_vars

----------------------------------------------------------------------------
(* acr_uniformity.py: get_integral_uniformity.  The image is an array over   *)
(* UnifGrid; a mask is the set of its True indices <<row, col>>.  The two    *)
(* circular masks come from ACRObject and are inputs here.                    *)

UnifGrid == (0..(UnifRows - 1)) \X (0..(UnifCols - 1))

\* d_void = np.ceil(5 / res[0])
d_void(rs) == CeilDiv(5, rs)

\* img_masked = lroi * img
img_masked(im, roi) == [q \in UnifGrid |-> IF q \in roi THEN im[q] ELSE 0]

\* np.nonzero(a)
nonzero(a) == {q \in DOMAIN a : a[q] # 0}

\* the k-th smallest of the nonzero values of a
kth_nonzero(a, k) ==
    CHOOSE v \in 1..MaxVal :
        /\ Cardinality({q \in nonzero(a) : a[q] <= v}) >= k
        /\ \A w \in 1..(v - 1) : Cardinality({q \in nonzero(a) : a[q] <= w}) < k

\* twice half_max = np.percentile(a[np.nonzero(a)], 50), the median with the
\* mean of the two middle values for an even count; -1 stands for the nan of
\* an empty selection
twice_half_max(a) ==
    LET n == Cardinality(nonzero(a))
    IN IF n = 0 THEN -1
       ELSE IF n % 2 = 1 THEN 2 * kth_nonzero(a, (n + 1) \div 2)
       ELSE kth_nonzero(a, n \div 2) + kth_nonzero(a, n \div 2 + 1)

\* min_image = img_masked * (img_masked < half_max)
min_image(a) ==
    [q \in UnifGrid |->
        IF twice_half_max(a) # -1 /\ 2 * a[q] < twice_half_max(a) THEN a[q] ELSE 0]

max_image_below(a) == min_image(a)

\* max_image = img_masked * (img_masked > half_max)
max_image(a) ==
    [q \in UnifGrid |->
        IF twice_half_max(a) # -1 /\ 2 * a[q] > twice_half_max(a) THEN a[q] ELSE 0]

\* translate_mask of uniformity_iterator for the sample centred on pt
translate_mask(sample, pt, cxy, dv) ==
    {<<q[1] + pt[1] - cxy[1] - dv, q[2] + pt[2] - cxy[2]>> : q \in sample}

\* an index numpy accepts: negative ones count from the end
in_range(t) ==
    /\ t[1] >= -UnifRows /\ t[1] < UnifRows
    /\ t[2] >= -UnifCols /\ t[2] < UnifCols
wrapped(t) ==
    <<IF t[1] < 0 THEN t[1] + UnifRows ELSE t[1],
      IF t[2] < 0 THEN t[2] + UnifCols ELSE t[2]>>

\* mean_val of uniformity_iterator: 0 when a pixel of the sample is zero,
\* else the mean of the values under the translated mask
mean_val(masked_image, sample, pt, cxy, dv) ==
    LET at == {wrapped(t) : t \in translate_mask(sample, pt, cxy, dv)}
    IN IF Cardinality({t \in at : masked_image[t] # 0}) < Cardinality(sample)
       THEN <<0, 1>>
       ELSE Frac(SumSet(at, masked_image), Cardinality(sample))

\* the pixels uniformity_iterator visits in its two calls
visited(a) == nonzero(min_image(a)) \cup nonzero(max_image(a))

\* masked_image[translate_mask[0], translate_mask[1]] raises IndexError
iterator_raises(a, sample, cxy, dv) ==
    {pt \in visited(a) :
        {t \in translate_mask(sample, pt, cxy, dv) : ~in_range(t)} # {}} # {}

\* mean_array after both calls of uniformity_iterator: the first writes the
\* pixels of min_image and the second those of max_image, into the one array
mean_array(a, sample, cxy, dv) ==
    [q \in UnifGrid |->
        IF min_image(a)[q] # 0 THEN mean_val(min_image(a), sample, q, cxy, dv)
        ELSE IF max_image(a)[q] # 0 THEN mean_val(max_image(a), sample, q, cxy, dv)
        ELSE <<0, 1>>]

\* min_data and max_data are both the array mean_array itself
min_data(a, sample, cxy, dv) == mean_array(a, sample, cxy, dv)
max_data(a, sample, cxy, dv) == mean_array(a, sample, cxy, dv)

\* np.nonzero of an array of means
nonzero_means(md) == {q \in DOMAIN md : md[q][1] # 0}

\* np.max(max_data)
sig_max_of(md) == CHOOSE x \in {md[q] : q \in DOMAIN md} :
                     \A q \in DOMAIN md : RatLe(md[q], x)

\* np.min(min_data[np.nonzero(min_data)]), for a non-empty selection
sig_min_of(md) == CHOOSE x \in {md[q] : q \in DOMAIN md} \ {<<0, 1>>} :
                     \A q \in DOMAIN md : md[q] = <<0, 1>> \/ RatLe(x, md[q])

\* piu = 100 * (1 - (sig_max - sig_min) / (sig_max + sig_min))
piu_of(smax, smin) ==
    RatMul(Rat(100),
           RatAdd(Rat(1), RatNeg(RatMul(RatAdd(smax, RatNeg(smin)),
                                        RatInv(RatAdd(smax, smin))))))

\* the images of the model: one value everywhere but at two pixels
UnifImages ==
    {[q \in UnifGrid |-> IF q = p1 THEN v1 ELSE IF q = p2 THEN v2 ELSE c] :
        <<p1, p2>> \in {<<<<0, 0>>, <<0, 1>>>>, <<<<0, 1>>, <<1, 1>>>>,
                        <<<<1, 0>>, <<1, 2>>>>},
        <<c, v1, v2>> \in (1..MaxVal) \X (1..MaxVal) \X (1..MaxVal)}

InitUnif ==
    /\ unif_img \in UnifImages
    /\ unif_res \in {3, 5}
    /\ acr_centre = <<0, 1>>
    /\ base_mask \in {{<<1, 1>>}, {<<1, 1>>, <<1, 2>>}}
    /\ lroi \in {UnifGrid, UnifGrid \ {<<1, 2>>}}
    /\ sig_max = <<>>
    /\ sig_min = <<>>
    /\ piu = <<>>
    /\ unif_pc = "call"

\* lines 161-173: an index of the translated mask is not one of the image
UnifIndexError ==
    /\ unif_pc = "call"
    /\ iterator_raises(img_masked(unif_img, lroi), base_mask, acr_centre, d_void(unif_res))
    /\ unif_pc' = "IndexError"
    /\ UNCHANGED <<unif_img, unif_res, acr_centre, base_mask, lroi, sig_max, sig_min, piu>>
    /\ UNCHANGED <<rodsVars, sortVars, fitVars, tcVars, stackVars, runVars, ghostVars, guiVars>>

\* line 184: np.min of an empty selection raises ValueError
UnifValueError ==
    /\ unif_pc = "call"
    /\ ~iterator_raises(img_masked(unif_img, lroi), base_mask, acr_centre, d_void(unif_res))
    /\ nonzero_means(min_data(img_masked(unif_img, lroi), base_mask, acr_centre,
                              d_void(unif_res))) = {}
    /\ unif_pc' = "ValueError"
    /\ UNCHANGED <<unif_img, unif_res, acr_centre, base_mask, lroi, sig_max, sig_min, piu>>
    /\ UNCHANGED <<rodsVars, sortVars, fitVars, tcVars, stackVars, runVars, ghostVars, guiVars>>

\* lines 183-184, 252 and 320
UnifReturn ==
    /\ unif_pc = "call"
    /\ ~iterator_raises(img_masked(unif_img, lroi), base_mask, acr_centre, d_void(unif_res))
    /\ LET a == img_masked(unif_img, lroi)
           mind == min_data(a, base_mask, acr_centre, d_void(unif_res))
           maxd == max_data(a, base_mask, acr_centre, d_void(unif_res))
       IN /\ nonzero_means(mind) # {}
          /\ sig_max' = sig_max_of(maxd)
          /\ sig_min' = sig_min_of(mind)
          /\ piu' = piu_of(sig_max_of(maxd), sig_min_of(mind))
    /\ unif_pc' = "returned"
    /\ UNCHANGED <<unif_img, unif_res, acr_centre, base_mask, lroi>>
    /\ UNCHANGED <<rodsVars, sortVars, fitVars, tcVars, stackVars, runVars, ghostVars, guiVars>>

NextUnif ==
    \/ UnifIndexError
    \/ UnifValueError
    \/ UnifReturn

StartUnif == InitUnif /\ IdleRods /\ IdleSort /\ IdleFit /\ IdleCoords /\ IdleStack /\ IdleRun /\ IdleGhost /\ IdleGui

SpecUnif == StartUnif /\ [][NextUnif]_vars

----------------------------------------------------------------------------
(* PyInstallerGUI/GUI.py: the window, its widgets and their callbacks *)

\* the keys of CheckBoxes other than "RunAll": one checkbox per test
TestKeys ==
    {"Uniformity", "Slice Position", "Spatial Resolution", "Slice Thickness",
     "SNR", "Geometric Accuracy", "Ghosting"}

\* the keys of the dictionary CheckBoxes
CheckBoxes == {"RunAll"} \cup TestKeys

\* the widgets appended to WidgetsToToggle, the checkboxes under their keys
WidgetsToToggle ==
    {"DCMPathButton", "ResultsPathButton", "dropdown", "RunAnalysisBtn",
     "ViewResultsBtn", "dropdownResults"} \cup CheckBoxes

\* the text both path variables are first set to
NotSet == "Not Set!"

\* the path Resultsfolder_path is set to straight after NotSet
PresetResultsPath == "C:\\Users\\John\\Desktop\\OutputTest"

\* the directories filedialog.askdirectory can return ("" when cancelled)
Directories == {"D:/QA"}

\* AdjustCheckBoxes, on the checkbox values cv and the widget states ws
AdjustCheckBoxes(cv, ws) ==
    LET enabled == IF cv["RunAll"] = 0
                   THEN [w \in WidgetsToToggle |->
                            IF w \in TestKeys THEN "normal" ELSE ws[w]]
                   ELSE ws
    IN  IF cv["RunAll"] = 1
        THEN [w \in WidgetsToToggle |->
                 IF w \in TestKeys THEN "disabled" ELSE enabled[w]]
        ELSE enabled

\* EnableOrDisableEverything: the states of the widgets afterwards
EnableOrDisableEverything(Enable) ==
    [w \in WidgetsToToggle |-> IF Enable THEN "normal" ELSE "disabled"]

\* RunAnalysis: the local RunAll
RunAllFlag == check_val["RunAll"] = 1 /\ widget_state["RunAll"] = "normal"

\* RunAnalysis: the tests whose local flag is set to True
TestFlags ==
    IF RunAllFlag THEN {}
    ELSE {k \in TestKeys : check_val[k] = 1 /\ widget_state[k] = "normal"}

\* RunAnalysis: the messages of the two messagebox.showerror calls
PathErrors ==
    (IF DCMfolder_path = NotSet THEN {"No DICOM Path Set"} ELSE {})
    \cup (IF Resultsfolder_path = NotSet THEN {"No Results Path Set"} ELSE {})

\* the module-level code: the window as root.mainloop() first sees it
InitGui ==
    /\ check_val = [k \in CheckBoxes |-> IF k = "RunAll" THEN 1 ELSE 0]
    /\ widget_state =
          [w \in WidgetsToToggle |->
              IF w \in {"DCMPathButton", "ResultsPathButton", "RunAll",
                        "RunAnalysisBtn"}
              THEN "normal" ELSE "disabled"]
    /\ ManualResCheck = 0
    /\ DCMfolder_path = NotSet
    /\ Resultsfolder_path = PresetResultsPath
    /\ shown_errors = {}
    /\ analysis_call = <<>>
    /\ gui_exc = FALSE
    /\ gui_pc = "idle"

\* a click on the checkbox of key: Tk flips its variable when the widget is
\* not disabled, then calls its command, AdjustCheckBoxes
ClickCheckBox(key) ==
    /\ widget_state[key] = "normal"
    /\ check_val' = [check_val EXCEPT ![key] = 1 - @]
    /\ widget_state' = AdjustCheckBoxes(check_val', widget_state)
    /\ gui_exc' = FALSE
    /\ UNCHANGED <<ManualResCheck, DCMfolder_path, Resultsfolder_path,
                   shown_errors, analysis_call, gui_pc>>
    /\ UNCHANGED <<rodsVars, sortVars, fitVars, tcVars, stackVars, runVars, ghostVars, unifVars>>

\* a click on 'Use Manual Resolution Check': it is not in WidgetsToToggle and
\* has no command
ClickManualResBox ==
    /\ gui_pc = "idle"
    /\ ManualResCheck' = 1 - ManualResCheck
    /\ UNCHANGED <<check_val, widget_state, DCMfolder_path, Resultsfolder_path,
                   shown_errors, analysis_call, gui_exc, gui_pc>>
    /\ UNCHANGED <<rodsVars, sortVars, fitVars, tcVars, stackVars, runVars, ghostVars, unifVars>>

\* SetDCMPath: filename is what the dialog returns, n_options the number of
\* series descriptions found (options[0] raises when there is none)
SetDCMPath(filename, n_options) ==
    LET ws == [widget_state EXCEPT !["dropdownResults"] = "disabled",
                                   !["ViewResultsBtn"] = "disabled"]
    IN  /\ widget_state["DCMPathButton"] = "normal"
        /\ IF filename = ""
           THEN /\ widget_state' = ws
                /\ gui_exc' = FALSE
                /\ UNCHANGED DCMfolder_path
           ELSE /\ DCMfolder_path' = filename
                /\ IF n_options = 0
                   THEN widget_state' = ws /\ gui_exc' = TRUE
                   ELSE /\ widget_state' = [ws EXCEPT !["dropdown"] = "normal"]
                        /\ gui_exc' = FALSE
        /\ UNCHANGED <<check_val, ManualResCheck, Resultsfolder_path,
                       shown_errors, analysis_call, gui_pc>>
        /\ UNCHANGED <<rodsVars, sortVars, fitVars, tcVars, stackVars, runVars, ghostVars, unifVars>>

\* SetResultsOutput: filename is what the dialog returns
SetResultsOutput(filename) ==
    /\ widget_state["ResultsPathButton"] = "normal"
    /\ Resultsfolder_path' = IF filename = "" THEN Resultsfolder_path ELSE filename
    /\ gui_exc' = FALSE
    /\ UNCHANGED <<check_val, widget_state, ManualResCheck, DCMfolder_path,
                   shown_errors, analysis_call, gui_pc>>
    /\ UNCHANGED <<rodsVars, sortVars, fitVars, tcVars, stackVars, runVars, ghostVars, unifVars>>

\* RunAnalysis up to its call of MedACRAnalysis.RunAnalysis: the flags, the
\* two path checks, EnableOrDisableEverything(False) and, with the manual
\* check ticked, GetROIFigs and the pattern windows (rois_ok: none of it raised)
RunAnalysisCall(rois_ok) ==
    /\ gui_pc = "idle"
    /\ widget_state["RunAnalysisBtn"] = "normal"
    /\ shown_errors' = PathErrors
    /\ widget_state' = EnableOrDisableEverything(FALSE)
    /\ IF ManualResCheck = 1 /\ ~rois_ok
       THEN /\ gui_exc' = TRUE
            /\ UNCHANGED <<analysis_call, gui_pc>>
       ELSE /\ analysis_call' = <<DCMfolder_path, Resultsfolder_path,
                                  RunAllFlag, TestFlags>>
            /\ gui_exc' = FALSE
            /\ gui_pc' = "analysis"
    /\ UNCHANGED <<check_val, ManualResCheck, DCMfolder_path, Resultsfolder_path>>
    /\ UNCHANGED <<rodsVars, sortVars, fitVars, tcVars, stackVars, runVars, ghostVars, unifVars>>

\* MedACRAnalysis.RunAnalysis returns: the rest of RunAnalysis, where
\* listing_ok says that the results folder has a sub-folder to list
\* (Folders.index and DropDownOptions[0] raise otherwise)
AnalysisReturns(listing_ok) ==
    /\ gui_pc = "analysis"
    /\ widget_state' = EnableOrDisableEverything(TRUE)
    /\ gui_exc' = ~listing_ok
    /\ analysis_call' = <<>>
    /\ gui_pc' = "idle"
    /\ UNCHANGED <<check_val, ManualResCheck, DCMfolder_path, Resultsfolder_path,
                   shown_errors>>
    /\ UNCHANGED <<rodsVars, sortVars, fitVars, tcVars, stackVars, runVars, ghostVars, unifVars>>

\* MedACRAnalysis.RunAnalysis raises: Tk reports the exception and the
\* callback is over
AnalysisRaises ==
    /\ gui_pc = "analysis"
    /\ gui_exc' = TRUE
    /\ analysis_call' = <<>>
    /\ gui_pc' = "idle"
    /\ UNCHANGED <<check_val, widget_state, ManualResCheck, DCMfolder_path,
                   Resultsfolder_path, shown_errors>>
    /\ UNCHANGED <<rodsVars, sortVars, fitVars, tcVars, stackVars, runVars, ghostVars, unifVars>>

NextGui ==
    \/ \E key \in CheckBoxes : ClickCheckBox(key)
    \/ ClickManualResBox
    \/ \E filename \in {""} \cup Directories, n_options \in {0, 1} :
          SetDCMPath(filename, n_options)
    \/ \E filename \in {""} \cup Directories : SetResultsOutput(filename)
    \/ \E rois_ok \in BOOLEAN : RunAnalysisCall(rois_ok)
    \/ \E listing_ok \in BOOLEAN : AnalysisReturns(listing_ok)
    \/ AnalysisRaises

StartGui == InitGui /\ IdleRods /\ IdleSort /\ IdleFit /\ IdleCoords /\ IdleStack /\ IdleRun /\ IdleGhost /\ IdleUnif

SpecGui == StartGui /\ [][NextGui]_vars

----------------------------------------------------------------------------
(* Claims on get_rods *)

\* the threshold levels of the sweep at which the image has 10 components
Qualifying == {x \in 0..(MaxOf(arr) - 1) : num_features_of(Binarize(arr, x)) = 10}

\* C1: when no threshold level of the sweep yields exactly 10 connected
\* components, get_rods fails (sys.exit raises SystemExit to the caller) and
\* returns no coordinates.
C1_FailsWithoutTenComponents ==
    (rods_pc # "call" /\ Qualifying = {}) => (rods_pc = "exit" /\ rods = <<>>)

\* the case of C1: an image whose ninth rod never separates has been refused
C1_Witness ==
    /\ rods_pc = "exit"
    /\ Qualifying = {}
    /\ arr[19] = MaxPix
    /\ \A x \in 0..(MaxOf(arr) - 1) : num_features_of(Binarize(arr, x)) <= 9

\* C7: when several levels qualify, the threshold used is a qualifying level
\* and a median of the qualifying levels (as many qualifying levels below it
\* as above it, up to one).
C7_MedianIsQualifying ==
    (rods_pc # "call" /\ Cardinality(Qualifying) >= 2) =>
        /\ thres_ind \in Qualifying
        /\ LET below == Cardinality({x \in Qualifying : x < thres_ind})
               above == Cardinality({x \in Qualifying : x > thres_ind})
           IN below - above \in {-1, 0, 1}

\* the labelling get_rods made at the threshold it chose
ChosenLabels == labeled_array_of(Binarize(arr, thres_ind))

\* the labels of the components that hold a corner of the image: the
\* background, which surrounds the phantom
BackgroundLabels == {ChosenLabels[1], ChosenLabels[Len(arr)]} \ {0}

\* the centroid of the component labelled l, as get_rods makes it
CentroidOf(l) ==
    Rod(center_of_mass(arr, ChosenLabels, l)[2], center_of_mass(arr, ChosenLabels, l)[1])

\* C27: get_rods returns 9 centroids, one for each component that is not the
\* background; the component left out is the background whichever label it
\* has.
C27_NineNonBackground ==
    (rods_pc = "returned" /\ Cardinality(BackgroundLabels) = 1) =>
        /\ Len(rods) = 9
        /\ {rods[k] : k \in 1..Len(rods)} =
              {CentroidOf(l) : l \in (1..10) \ BackgroundLabels}

----------------------------------------------------------------------------
(* Claims on sort_rods *)

RowRank(c, ia) == Cardinality({ib \in 1..Len(c) : RatLe(c[ib].y, c[ia].y)})
TopRow(c) == {ia \in 1..Len(c) : RowRank(c, ia) <= 3}
TopTwoRows(c) == {ia \in 1..Len(c) : RowRank(c, ia) <= 6}
\* nine centroids in three rows of three with distinct row positions
ThreeRows(c) ==
    /\ Len(c) = 9
    /\ Cardinality(TopRow(c)) = 3
    /\ Cardinality(TopTwoRows(c)) = 6

IsRowLeftToRight(out, from, members, c) ==
    /\ {out[from], out[from + 1], out[from + 2]} = {c[ia] : ia \in members}
    /\ RatLe(out[from].x, out[from + 1].x)
    /\ RatLe(out[from + 1].x, out[from + 2].x)

\* C5: for nine centroids in three rows of three with distinct row positions
\* sort_rods returns the bottom row (largest y) left to right, then the middle
\* row left to right, then the top row left to right.
C5_BottomMiddleTop ==
    (ordered # <<>> /\ ThreeRows(centroids)) =>
        /\ Len(ordered) = 9
        /\ IsRowLeftToRight(ordered, 1, (1..9) \ TopTwoRows(centroids), centroids)
        /\ IsRowLeftToRight(ordered, 4, TopTwoRows(centroids) \ TopRow(centroids), centroids)
        /\ IsRowLeftToRight(ordered, 7, TopRow(centroids), centroids)

\* the case of C5: a reordered three-row layout has been sorted
C5_Witness ==
    /\ ordered # <<>>
    /\ ThreeRows(centroids)
    /\ n_swaps = MaxSwaps
    /\ centroids # ordered

\* C6: sort_rods returns the same sequence for every ordering of the same
\* nine centroids, ties in y at a row boundary or in x included.
C6_SameForEveryPermutation ==
    (ordered # <<>> /\ reference # <<>>) => ordered = reference

----------------------------------------------------------------------------
(* Claims on fit_trapezoid *)

\* the cap of C2, scaled to the passes the model's searches take
SafetyCap == 3

\* C2: fit_trapezoid carries a safety cap on the passes of its search: pass
\* SafetyCap + 1 never begins.
C2_PassesCapped == j <= SafetyCap

SearchEnded == fit_pc \in {"done", "raised"} /\ j >= 1

\* C3: the search ends exactly when a full pass over the 14 perturbations has
\* accepted none of them, and the held coefficients are then returned.
C3_EndsAfterIdlePass ==
    SearchEnded => (fit_pc = "done" /\ cont = 0 /\ i = 13)

\* C4: a perturbation is accepted only if its error is strictly smaller than
\* the current error, which it then replaces; without an acceptance the
\* current error stays, so it never increases during the search.
C4_Step ==
    fit_pc # "call" =>
        /\ n_accept' > n_accept =>
              (new_error' < current_error /\ current_error' = new_error')
        /\ n_accept' = n_accept => current_error' = current_error
        /\ current_error' <= current_error
C4_ErrorOnlyDecreases == [][C4_Step]_vars

\* the case of C4: a search that accepted perturbations in several passes
C4_Witness ==
    /\ fit_pc = "done"
    /\ n_accept >= 3
    /\ j >= 3
    /\ current_error = get_error(baseline_fit_coefficients, trapezoid_fit_coefficients)

----------------------------------------------------------------------------
(* Claims on transform_coords *)

Invertible(m) == determinant(m)[1] # 0
Identity == <<(<<Rat(1), Rat(0), Rat(0)>>), (<<Rat(0), Rat(1), Rat(0)>>)>>
RoundTripDone ==
    /\ tc_pc = "inverted"
    /\ flags = <<TRUE, FALSE>>
    /\ back_flags = <<FALSE, TRUE>>
    /\ Invertible(rt_matrix)

ExactImage == cv_transform([dtype |-> "float", pts |-> flip(coords).pts], rt_matrix).pts

C9_FlagsExchangeColumns ==
    tc_pc # "start" =>
        /\ out_coords = (IF flags[2] THEN flip(cv_transform(IF flags[1] THEN flip(coords) ELSE coords, rt_matrix))
                         ELSE cv_transform(IF flags[1] THEN flip(coords) ELSE coords, rt_matrix))
        /\ flags = <<TRUE, TRUE>> =>
              out_coords = flip(transform_coords(flip(coords), rt_matrix, FALSE, FALSE))
        /\ (flags = <<TRUE, FALSE>> /\ rt_matrix = Identity) => out_coords = flip(coords)

\* the case of C9: the identity applied with flags (True, False) to a point
\* with different coordinates
C9_Witness ==
    /\ tc_pc = "applied"
    /\ flags = <<TRUE, FALSE>>
    /\ rt_matrix = Identity
    /\ coords.pts[1][1] # coords.pts[1][2]
    /\ out_coords = flip(coords)

----------------------------------------------------------------------------
(* Claims on ImageStack *)

\* a step of generate_time_series with fit_coords=True
SeriesStepFitted ==
    /\ <<series_args, series_outcome, ROI_time_series>>' #
          <<series_args, series_outcome, ROI_time_series>>
    /\ series_args'[2] = TRUE

\* C10: a generate_time_series(fit_coords=True) made when the last
\* template_fit failed fails too: it does not return with the points mapped
\* by the identity.
C10_NoSeriesAfterFailedFit ==
    [][(fit_outcome \in {"cv.error", "AttributeError"} /\ SeriesStepFitted)
          => series_outcome' # "returned"]_vars

\* C11: template_fit(image_index=i) fits the template to self.images[i].
C11_FitsIndexedImage ==
    fit_outcome \in {"returned", "cv.error"} => target_px = images[fit_args + 1].id

IsOrdered(imgs) ==
    \A a, b \in 1..Len(imgs) : a < b => RatLe(imgs[a].time, imgs[b].time)
IsPermutation(s, t) ==
    /\ Len(s) = Len(t)
    /\ \A e \in {t[n] : n \in 1..Len(t)} :
          Cardinality({n \in 1..Len(s) : s[n] = e}) = Cardinality({n \in 1..Len(t) : t[n] = e})

\* C18: a stack constructed with an ordering attribute holds a permutation of
\* the slices given, in non-decreasing order of the attribute, and
\* template_fit and generate_time_series leave self.images as it is.
C18_OrderedOnceAndKept ==
    /\ [](dicom_order_key # "None" =>
             (IsPermutation(images, image_slices) /\ IsOrdered(images)))
    /\ [][images' = images]_vars

\* the case of C18: slices given out of order, after a fit and a time series
C18_Witness ==
    /\ dicom_order_key # "None"
    /\ ~IsOrdered(image_slices)
    /\ IsOrdered(images)
    /\ fit_outcome = "returned"
    /\ series_outcome = "returned"

\* what perturbation n changes of the held coefficients: one baseline
\* coefficient for 0..5, then the ramp width, the plateau width, the centre
\* and the amplitude, two perturbations each, the decrease before the increase
\* except for the centre, which is shifted left first
ChangedPlaces(a, b) == {k \in 1..Len(a) : a[k] # b[k]}
PerturbationKind(n, base, trap) ==
    LET cand == perturbed(n, base, trap)
        db == ChangedPlaces(cand[1], base)
        dt == ChangedPlaces(cand[2], trap)
        sign == IF n % 2 = 0 THEN -1 ELSE 1
    IN IF n <= 5
       THEN /\ dt = {}
            /\ db = {(n \div 2) + 1}
            /\ (cand[1][(n \div 2) + 1] - base[(n \div 2) + 1]) * sign > 0
       ELSE /\ db = {}
            /\ cand[2][3] + cand[2][4] + 2 * cand[2][1] + cand[2][2] =
                  trap[3] + trap[4] + 2 * trap[1] + trap[2]
            /\ IF n \in {6, 7} THEN dt = {1, 3, 4} /\ cand[2][1] - trap[1] = sign
               ELSE IF n \in {8, 9} THEN dt = {2, 3, 4} /\ cand[2][2] - trap[2] = 2 * sign
               ELSE IF n \in {10, 11} THEN dt = {3, 4} /\ cand[2][3] - trap[3] = sign
               ELSE dt = {5} /\ (cand[2][5] - trap[5]) * sign > 0

C19_Step ==
    /\ fit_pc = "for" =>
          /\ fit_pc' \in {"for", "while", "raised"}
          /\ fit_pc' = "for" => i < 13 /\ i' = i + 1 /\ j' = j
          /\ fit_pc' = "while" => i = 13 /\ j' = j
          /\ cont = 1 => cont' = 1
          /\ current_error' # current_error => cont' = 1
    /\ (fit_pc = "while" /\ cont = 1) =>
          fit_pc' = "for" /\ i' = 0 /\ j' = j + 1 /\ cont' = 0
    /\ (fit_pc = "while" /\ cont # 1) => fit_pc' = "done"

C20_Step ==
    (fit_pc = "for" /\ current_error' # current_error) =>
        /\ <<baseline_fit_coefficients', trapezoid_fit_coefficients'>> =
              perturbed(i, baseline_fit_coefficients, trapezoid_fit_coefficients)
        /\ current_error' = get_error(baseline_fit_coefficients',
                                      trapezoid_fit_coefficients')
C20_HeldIsAccepted == [][C20_Step]_vars

\* the sum the coefficients are derived to have
CoefficientSum(trap) == trap[3] + 2 * trap[1] + trap[2] + trap[4]

\* get_initial_trapezoid_fit_and_coefficients has returned and no pass has begun
InitialHeld == fit_pc \in {"while", "raised"} /\ j = 0

\* C21: the initial left and right baseline lengths are non-negative and
\* sum, with the two ramps and the plateau, to the length of the profile, so
\* the initial trapezoid has as many samples as the profile.
C21_InitialLengths ==
    InitialHeld =>
        /\ trapezoid_fit_coefficients[3] >= 0
        /\ trapezoid_fit_coefficients[4] >= 0
        /\ CoefficientSum(trapezoid_fit_coefficients) =
              Len(profiles.profile_corrected_interpolated)
        /\ trapezoid_len(trapezoid_fit_coefficients) =
              Len(profiles.profile_corrected_interpolated)

\* C22: each of the 8 trapezoid perturbations leaves n_left_baseline +
\* 2 n_ramp + n_plateau + n_right_baseline as it was, so the held trapezoid
\* sums to the length of the profile after any accepted perturbations.
C22_SumPreserved ==
    fit_pc # "call" =>
        /\ CoefficientSum(trapezoid_fit_coefficients) =
              Len(profiles.profile_corrected_interpolated)
        /\ \A n \in 6..13 :
              CoefficientSum(perturbed(n, baseline_fit_coefficients,
                                       trapezoid_fit_coefficients)[2]) =
                 CoefficientSum(trapezoid_fit_coefficients)

\* the case of C22: a search that has ended with a held trapezoid whose
\* lengths are not the initial ones
C22_Witness ==
    /\ fit_pc = "done"
    /\ \A centre \in trapezoid_centre(profiles.profile_corrected_interpolated) :
          LET first == initial_coefficients(profiles.profile_corrected_interpolated,
                                            slice_thickness, centre)
          IN /\ trapezoid_fit_coefficients[3] # first[3]
             /\ trapezoid_fit_coefficients[2] # first[2]

\* C23: the initial current error is the error of the initial coefficients
\* under the objective that scores the candidates (get_error).
C23_InitialErrorSameObjective ==
    (InitialHeld /\ fit_pc = "while") =>
        current_error = get_error(baseline_fit_coefficients, trapezoid_fit_coefficients)

----------------------------------------------------------------------------
(* Claims on ACRGhosting.run *)

\* C16: run gives exactly one slice to get_signal_ghosting, one whose
\* z-position is the 7th smallest, in whatever order the stack is given and
\* also when slices share a z-position.
C16_ExactlySliceSeven ==
    run_pc = "returned" =>
        /\ Cardinality(calls) = 1
        /\ \A k \in calls : data[k] = seventh_z(data)

----------------------------------------------------------------------------
(* Claims on get_signal_ghosting *)

IsNumber(x) == x[2] # 0
\* 100 |((n + s) - (w + e)) / (2 large)| to 3 decimals, for v = <<large, w, e, n, s>>
GhostingFormula(v) ==
    LET ns == RatAdd(v[4], v[5])
        we == RatAdd(v[2], v[3])
        diff == IF RatLe(we, ns) THEN RatAdd(ns, RatNeg(we)) ELSE RatAdd(we, RatNeg(ns))
    IN round3(RatMul(Frac(50, 1), RatMul(diff, RatInv(v[1]))))

\* C12: the value returned is 100 |((n + s) - (w + e)) / (2 large)| of the
\* five ROI means, to 3 decimals, and is never negative.
C12_GhostingValue ==
    ghost_pc = "returned" =>
        /\ psg[1] >= 0
        /\ ((\A k \in 1..5 : IsNumber(roi_vals[k])) /\ roi_vals[1][1] # 0) =>
              psg = GhostingFormula(roi_vals)

\* the case of C12: the east and west means exceed the north and south ones
C12_Witness ==
    /\ ghost_pc = "returned"
    /\ \A k \in 1..5 : IsNumber(roi_vals[k])
    /\ roi_vals[1][1] # 0
    /\ RatLt(RatAdd(roi_vals[4], roi_vals[5]), RatAdd(roi_vals[2], roi_vals[3]))
    /\ psg[1] > 0

ZeroOutside(im) == im.north = 0 /\ im.south = 0 /\ im.west = 0 /\ im.east = 0
\* the pixels of a ROI that lie in the phantom mask
InPhantom(im, roi) ==
    {q \in roi : q[1] >= im.r0 /\ q[1] <= im.r1 /\ q[2] >= im.c0 /\ q[2] <= im.c1}

\* C13: with zero signal everywhere outside the phantom mask the value
\* returned is 0.0, the four ellipses holding only pixels outside the mask.
C13_ZeroOutsideGivesZero ==
    (ghost_pc = "returned" /\ ZeroOutside(img)) =>
        /\ psg = <<0, 1>>
        /\ \A k \in 2..5 : InPhantom(img, roi_masks(img, res)[k]) = {}

TouchesAllBorders(im) ==
    im.r0 = 0 /\ im.c0 = 0 /\ im.r1 = im.rows - 1 /\ im.c1 = im.cols - 1

\* C14: with an empty phantom mask, or one that touches the image border on
\* all four sides, the scan fails and returns no metric.
C14_FailsWithoutGeometry ==
    (ghost_pc # "call" /\ (convex_hull(img) = <<>> \/ TouchesAllBorders(img)))
        => ghost_pc # "returned"

\* C17: every ROI mask has the shape of the image, also when rows and
\* columns differ, so indexing the image with it stays in bounds.
C17_MasksHaveImageShape ==
    ghost_pc # "call" =>
        /\ roi_shape = <<img.rows, img.cols>>
        /\ convex_hull(img) # <<>> => not_indexable(img, roi_masks(img, res)) = {}

\* by how much the nominal ellipse centred at c, with its half short axis h
\* and the tolerance of 5, overruns the lower and the upper end of its gap
Overruns(c, h, lo, hi) == <<lo - (c - h - 5), (c + h + 5) - hi>>

\* the factor C24 allows: 1 when neither end is overrun, else the factor of
\* the overrun of an end that is overrun
AllowedFactors(c, h, lo, hi) ==
    LET o == Overruns(c, h, lo, hi)
    IN IF o[1] <= 0 /\ o[2] <= 0 THEN {<<1, 1>>}
       ELSE {<<h, h - o[k]>> : k \in {n \in 1..2 : o[n] > 0}}

\* the scan has placed its ellipses: a phantom was found
EllipsesPlaced == ghost_pc # "call" /\ convex_hull(img) # <<>>

\* C24: the factor of each outer ellipse is 1 exactly when the nominal
\* ellipse fits between the image edge and the phantom edge, and otherwise
\* comes from the overrun of a side that is overrun.
C24_FactorFromOverrun ==
    EllipsesPlaced =>
        LET mask == convex_hull(img)
            cxy == centroid(mask)
            dims == <<img.rows, img.cols>>
            h == half_sad(res)
        IN /\ w_factor(mask, cxy, h) \in
                 AllowedFactors(w_centre(mask, cxy)[2], h, 0, mask[3])
           /\ e_factor(mask, cxy, dims, h) \in
                 AllowedFactors(e_centre(mask, cxy, dims)[2], h, mask[4], img.cols - 1)
           /\ n_factor(mask, cxy, h) \in
                 AllowedFactors(n_centre(mask, cxy)[1], h, 0, mask[1])
           /\ s_factor(mask, cxy, dims, h) \in
                 AllowedFactors(s_centre(mask, cxy, dims)[1], h, mask[2], img.rows - 1)

\* a factor that does not widen the ellipse across the gap: its half-width
\* there is (10 / res) / |factor|
Compresses(f) == f[2] = 0 \/ f[1] >= Abs(f[2])

\* C25: an outer ellipse whose factor is not 1 is compressed across the gap
\* and lies between the image edge and the phantom edge.
C25_ScaledEllipseInGap ==
    EllipsesPlaced =>
        LET mask == convex_hull(img)
            cxy == centroid(mask)
            dims == <<img.rows, img.cols>>
            h == half_sad(res)
            rois == roi_masks(img, res)
        IN /\ w_factor(mask, cxy, h) # <<1, 1>> =>
                 /\ Compresses(w_factor(mask, cxy, h))
                 /\ {q \in rois[2] : q[2] >= mask[3]} = {}
           /\ e_factor(mask, cxy, dims, h) # <<1, 1>> =>
                 /\ Compresses(e_factor(mask, cxy, dims, h))
                 /\ {q \in rois[3] : q[2] <= mask[4]} = {}
           /\ n_factor(mask, cxy, h) # <<1, 1>> =>
                 /\ Compresses(n_factor(mask, cxy, h))
                 /\ {q \in rois[4] : q[1] >= mask[1]} = {}
           /\ s_factor(mask, cxy, dims, h) # <<1, 1>> =>
                 /\ Compresses(s_factor(mask, cxy, dims, h))
                 /\ {q \in rois[5] : q[1] <= mask[2]} = {}

----------------------------------------------------------------------------
(* Claims on get_integral_uniformity *)

\* every pixel of the image has the same non-zero value
IsFlat(im) == \E c \in 1..MaxVal : \A q \in DOMAIN im : im[q] = c

\* C15: on a perfectly flat image (every pixel the same non-zero value)
\* get_integral_uniformity returns a percent integral uniformity of 100.0.
C15_FlatGivesHundred ==
    (unif_pc # "call" /\ IsFlat(unif_img)) =>
        (unif_pc = "returned" /\ piu = <<100, 1>>)

\* the pixels of the large ROI below and above its median, as images
BelowMedian(a) ==
    [q \in UnifGrid |-> IF a[q] # 0 /\ 2 * a[q] < twice_half_max(a) THEN a[q] ELSE 0]
AboveMedian(a) ==
    [q \in UnifGrid |-> IF a[q] # 0 /\ 2 * a[q] > twice_half_max(a) THEN a[q] ELSE 0]

\* the non-zero neighbourhood means found when scanning the pixels of part
ScanMeans(part) ==
    {mean_val(part, base_mask, q, acr_centre, d_void(unif_res)) : q \in nonzero(part)}
       \ {<<0, 1>>}
MaxMean(S) == CHOOSE x \in S : \A y \in S : RatLe(y, x)
MinMean(S) == CHOOSE x \in S : \A y \in S : RatLe(x, y)

\* both scans of the returned call found a neighbourhood without a zero
BothScansFound ==
    /\ unif_pc = "returned"
    /\ ScanMeans(BelowMedian(img_masked(unif_img, lroi))) # {}
    /\ ScanMeans(AboveMedian(img_masked(unif_img, lroi))) # {}

\* C26: the max value is the largest neighbourhood mean of the scan of the
\* pixels below the median, and the min value the smallest non-zero
\* neighbourhood mean of the scan of the pixels above the median.
C26_MaxBelowMinAbove ==
    BothScansFound =>
        /\ sig_max = MaxMean(ScanMeans(BelowMedian(img_masked(unif_img, lroi))))
        /\ sig_min = MinMean(ScanMeans(AboveMedian(img_masked(unif_img, lroi))))

\* C26 as the code has it: the max value is the largest mean of the scan above
\* the median and the min value the smallest non-zero mean of the scan below
\* it; when one scan finds no non-zero mean the value comes from the other
\* scan, both writing into one array.
C26_MaxAboveMinBelow ==
    unif_pc = "returned" =>
        LET below == ScanMeans(BelowMedian(img_masked(unif_img, lroi)))
            above == ScanMeans(AboveMedian(img_masked(unif_img, lroi)))
        IN /\ below \cup above # {}
           /\ sig_max = MaxMean(IF above # {} THEN above ELSE below)
           /\ sig_min = MinMean(IF below # {} THEN below ELSE above)

\* the case of C26: both scans found means, and they differ
C26_Witness == BothScansFound /\ sig_max # sig_min

----------------------------------------------------------------------------
(* Claims on the GUI *)

\* C28: whenever the window waits for the user after a callback that ended
\* without an exception, the checkbox of every test is disabled when 'Run All'
\* is checked and enabled when it is unchecked
C28_TestsFollowRunAll ==
    (gui_pc = "idle" /\ ~gui_exc) =>
        \A k \in TestKeys :
            widget_state[k] = IF check_val["RunAll"] = 1 THEN "disabled"
                              ELSE "normal"

\* C29: the step that ends RunAnalysis, whether its analysis returned or
\* raised, leaves every widget of WidgetsToToggle enabled
C29_EnabledAgainWhenRunEnds ==
    [][(gui_pc = "analysis" /\ gui_pc' = "idle") =>
          \A w \in WidgetsToToggle : widget_state'[w] = "normal"]_vars

\* C30: MedACRAnalysis.RunAnalysis is never in progress with a DICOM path or a
\* results path that is still 'Not Set!'
C30_NoAnalysisWithoutPaths ==
    gui_pc = "analysis" =>
        (analysis_call[1] # NotSet /\ analysis_call[2] # NotSet)

====
